---- MODULE Spec2Model ----
(***************************************************************************)
(* Model of opentainer's front-end streaming bridge: the session handles   *)
(* of lib/api.ts (startLogs, startExec, pullImage), the components that    *)
(* drive them (LogsView, ExecView) and the backend command layer they      *)
(* talk to through invoke (commands) and listen (events).                  *)
(*                                                                         *)
(* One api.ts call is one handle h.  Its closure variables are sessionId   *)
(* (sid), active and unlisten; pc is the position of its async setup():    *)
(*   "listen"  awaiting listen(eventName, ...)                             *)
(*   "start"   awaiting invoke(start command)                              *)
(*   "done"    setup() has returned                                        *)
(* invoke() is fire-and-forget: a command is put in cmds and the backend   *)
(* takes commands out of cmds in any order.                                *)
(***************************************************************************)
EXTENDS Integers, Sequences, FiniteSets, TLC

Handles == {"h1", "h2"}
SessionIds == {"s1", "s2"}
NoHandle == "no_handle"
NoSession == "no_session"

\* Bounds of the model.
MaxEvents == 2
MaxStops == 2
MaxWrites == 2
MaxResizes == 1

VARIABLES
    \* lib/api.ts: closure state of one startLogs / startExec / pullImage call
    kind, sid, active, unlisten, pc, args,
    \* transport: registered listeners, undelivered events, commands in flight,
    \* the answer to the start command of each handle
    listeners, evq, cmds, resp,
    \* backend command layer
    registry, ptyInput, emitted, containerRunning,
    \* observation of the calls made on a handle and of the callbacks it made
    stopCalls, stopResults, startIssued, delivered, crashed,
    writes, resizeCalls, onEndCount, onErrorCount,
    \* LogsView
    logsMounted, logsEffect, showTimestamps, xtermRef, stopLogsRef, flushInterval,
    buffer, written,
    \* ExecView: its props, refs and the closure of its current effect run
    execMounted, execEffect, isRunning, tabActive, initializedRef, currentExecSession,
    disposed, termText,
    \* useBatchContainerStats: the result its getBatchStats call resolved with,
    \* the allStats state, and whether fetchAllStats has processed the result
    batchResult, allStats, statsFetched,
    \* useContainers (and useImages, useVolumes, useNetworks, which repeat it):
    \* its state, the result its last call resolved with, the number of calls
    \* resolved and of console.error calls
    containers, error, loading, lastResult, fetchCount, consoleErrors,
    \* App: its state, the await checkAndStartDocker is at, the number of
    \* runs started, the calls of the current run with their outcomes, and the
    \* startup failures surfaced so far with their causes
    dockerState, errorMessage, appPc, runs, runLog, failures,
    \* useSortable: its items argument, its sortConfig state, the sortedItems
    \* of the last render, the key last passed to requestSort, and the order
    \* in which the engine's sort hands two elements to the comparator
    sortInput, sortConfig, sortedItems, requestedKey, cmpOrder,
    \* terminal theme: the theme setting, the answer of the OS to
    \* (prefers-color-scheme: dark), and the themes computed so far with their inputs
    theme, prefersDark, themeLog,
    \* ImageList: whether it is mounted, its pulling, showPullModal and pullLogs
    \* state, cancelPullRef.current, and the number of pull callbacks invoked
    \* after it was unmounted
    imgPhase, pulling, showPullModal, cancelPullRef, pullLogs, lateCallbacks,
    \* useBatchContainerStats, polling: its containerIds argument, the getBatchStats
    \* requests in flight, the number of requests issued, and the request whose
    \* response set allStats last
    containerIds, statsInFlight, pollCount, lastApplied,
    \* App: whether the 'docker-stopping' event was received, and the await the
    \* run was at when it was
    stoppingReceived, stoppingAt

apiVars == <<kind, sid, active, unlisten, pc, args>>
busVars == <<listeners, evq, cmds, resp>>
backendVars == <<registry, ptyInput, emitted, containerRunning>>
obsVars == <<stopCalls, stopResults, startIssued, delivered, crashed,
             writes, resizeCalls, onEndCount, onErrorCount>>
callObs == <<writes, resizeCalls, onEndCount, onErrorCount>>
logsViewVars == <<logsMounted, logsEffect, showTimestamps, xtermRef, stopLogsRef, flushInterval,
                  buffer, written>>
execViewVars == <<execMounted, execEffect, isRunning, tabActive, initializedRef,
                  currentExecSession, disposed, termText>>
statsVars == <<batchResult, allStats, statsFetched>>
oneShotVars == <<containers, error, loading, lastResult, fetchCount, consoleErrors>>
appVars == <<dockerState, errorMessage, appPc, runs, runLog, failures>>
sortVars == <<sortInput, sortConfig, sortedItems, requestedKey, cmpOrder>>
themeVars == <<theme, prefersDark, themeLog>>
imageVars == <<imgPhase, pulling, showPullModal, cancelPullRef, pullLogs, lateCallbacks>>
pollVars == <<containerIds, statsInFlight, pollCount, lastApplied>>
stoppingVars == <<stoppingReceived, stoppingAt>>
hookVars == <<statsVars, oneShotVars, appVars, sortVars, themeVars, imageVars, pollVars, stoppingVars>>
hooksButStats == <<oneShotVars, appVars, sortVars, themeVars, imageVars, pollVars, stoppingVars>>
hooksButOneShot == <<statsVars, appVars, sortVars, themeVars, imageVars, pollVars, stoppingVars>>
hooksButApp == <<statsVars, oneShotVars, sortVars, themeVars, imageVars, pollVars, stoppingVars>>
hooksButSort == <<statsVars, oneShotVars, appVars, themeVars, imageVars, pollVars, stoppingVars>>
hooksButTheme == <<statsVars, oneShotVars, appVars, sortVars, imageVars, pollVars, stoppingVars>>
hooksButImage == <<statsVars, oneShotVars, appVars, sortVars, themeVars, pollVars, stoppingVars>>
hooksButPoll == <<statsVars, oneShotVars, appVars, sortVars, themeVars, imageVars, stoppingVars>>
hooksButStatsAndPoll == <<oneShotVars, appVars, sortVars, themeVars, imageVars, stoppingVars>>
hooksButStopping == <<statsVars, oneShotVars, appVars, sortVars, themeVars, imageVars, pollVars>>
hooksButAppAndStopping == <<statsVars, oneShotVars, sortVars, themeVars, imageVars, pollVars>>
viewVars == <<logsViewVars, execViewVars, hookVars>>
streamVars == <<apiVars, busVars, backendVars, obsVars, logsViewVars, execViewVars>>
vars == <<streamVars, hookVars>>

----------------------------------------------------------------------------
\* Helpers

IsPrefix(s, t) == Len(s) <= Len(t) /\ SubSeq(t, 1, Len(s)) = s

UsedIds == {sid[h] : h \in {x \in Handles : kind[x] # "none"}}

\* Math.random().toString(36).substring(7): an id no earlier call drew.
FreshIds == SessionIds \ UsedIds
RandomIdRepeats == CHOOSE s \in SessionIds : TRUE

RandomId == CHOOSE s \in FreshIds : TRUE

\* The handle a new api call gets.
FreeHandles == {h \in Handles : kind[h] = "none"}
NewHandle == CHOOSE h \in FreeHandles : TRUE

Cmd(op, k, s, h, n, d, c, r) ==
    [op |-> op, kind |-> k, sid |-> s, h |-> h, n |-> n, data |-> d, cols |-> c, rows |-> r]

Live(k, s) == \E e \in registry : e.kind = k /\ e.sid = s

\* The listeners registered on the event name `${k}-${s}`.
ListenersOf(k, s) == {l \in listeners : kind[l] = k /\ sid[l] = s}

NoArgs == [cols |-> 0, rows |-> 0, ts |-> ""]

----------------------------------------------------------------------------
\* Initial state: no api call made, nothing mounted, backend registry empty.

InitStreams ==
    /\ kind = [h \in Handles |-> "none"]
    /\ sid = [h \in Handles |-> NoSession]
    /\ active = [h \in Handles |-> FALSE]
    /\ unlisten = [h \in Handles |-> FALSE]
    /\ pc = [h \in Handles |-> "none"]
    /\ args = [h \in Handles |-> NoArgs]
    /\ listeners = {}
    /\ evq = [h \in Handles |-> <<>>]
    /\ cmds = {}
    /\ resp = [h \in Handles |-> "none"]
    /\ registry = {}
    /\ ptyInput = [s \in SessionIds |-> <<>>]
    /\ emitted = 0
    /\ containerRunning = TRUE
    /\ stopCalls = [h \in Handles |-> 0]
    /\ stopResults = [h \in Handles |-> <<>>]
    /\ startIssued = {}
    /\ delivered = [h \in Handles |-> <<>>]
    /\ crashed = FALSE
    /\ writes = [h \in Handles |-> 0]
    /\ resizeCalls = [h \in Handles |-> 0]
    /\ onEndCount = [h \in Handles |-> 0]
    /\ onErrorCount = [h \in Handles |-> 0]
    /\ logsMounted = FALSE
    /\ logsEffect = "idle"
    /\ showTimestamps = FALSE
    /\ xtermRef = NoHandle
    /\ stopLogsRef = NoHandle
    /\ flushInterval = {}
    /\ buffer = [h \in Handles |-> <<>>]
    /\ written = [h \in Handles |-> <<>>]
    /\ execMounted = FALSE
    /\ execEffect = "idle"
    /\ isRunning = TRUE
    /\ tabActive = FALSE
    /\ initializedRef = FALSE
    /\ currentExecSession = NoHandle
    /\ disposed = {}
    /\ termText = [h \in Handles |-> <<>>]

\* useBatchContainerStats with no result to process.
InitStatsIdle ==
    /\ batchResult = [success |-> FALSE, data |-> <<>>]
    /\ allStats = <<>>
    /\ statsFetched = TRUE

\* useContainers before its first fetch has resolved.
InitOneShot ==
    /\ containers = <<>>
    /\ error = <<>>
    /\ loading = TRUE
    /\ lastResult = [success |-> TRUE, data |-> <<>>, error |-> <<>>, thrown |-> FALSE]
    /\ fetchCount = 0
    /\ consoleErrors = 0

\* App before its effect has called checkAndStartDocker.
InitApp ==
    /\ dockerState = "checking"
    /\ errorMessage = <<>>
    /\ appPc = "idle"
    /\ runs = 0
    /\ runLog = <<>>
    /\ failures = {}

\* useSortable of an empty list with the default config.
InitSortIdle ==
    /\ sortInput = <<>>
    /\ sortConfig = [key |-> <<>>, direction |-> "ascending"]
    /\ sortedItems = [threw |-> FALSE, items |-> <<>>]
    /\ requestedKey = <<>>
    /\ cmpOrder = "earlier first"

\* The theme setting of the settings store, before any terminal theme was
\* computed.
InitThemeIdle ==
    /\ theme = "system"
    /\ prefersDark = FALSE
    /\ themeLog = <<>>

\* ImageList before the Images tab is selected.
InitImageIdle ==
    /\ imgPhase = "never"
    /\ pulling = FALSE
    /\ showPullModal = FALSE
    /\ cancelPullRef = NoHandle
    /\ pullLogs = <<>>
    /\ lateCallbacks = 0

\* useBatchContainerStats of an empty id list: nothing is fetched.
InitPollIdle ==
    /\ containerIds = {}
    /\ statsInFlight = {}
    /\ pollCount = 0
    /\ lastApplied = [ids |-> {}, poll |-> 0]

\* App before any 'docker-stopping' event.
InitStoppingIdle ==
    /\ stoppingReceived = FALSE
    /\ stoppingAt = "none"

\* The initial state of the hooks, but of those named in skip.
InitHooksBut(skip) ==
    /\ IF "stats" \in skip THEN TRUE ELSE InitStatsIdle
    /\ IF "oneShot" \in skip THEN TRUE ELSE InitOneShot
    /\ IF "app" \in skip THEN TRUE ELSE InitApp
    /\ IF "sort" \in skip THEN TRUE ELSE InitSortIdle
    /\ IF "theme" \in skip THEN TRUE ELSE InitThemeIdle
    /\ IF "image" \in skip THEN TRUE ELSE InitImageIdle
    /\ IF "poll" \in skip THEN TRUE ELSE InitPollIdle
    /\ IF "stopping" \in skip THEN TRUE ELSE InitStoppingIdle

InitHooks == InitHooksBut({})

Init == InitStreams /\ InitHooks

----------------------------------------------------------------------------
\* JavaScript runs one callback at a time, to completion.  A React commit
\* runs the old effect's cleanup and then the new effect body with no other
\* callback in between; only the backend can act between the two.

JsIdle == logsEffect = "idle" /\ execEffect = "idle"

----------------------------------------------------------------------------
\* lib/api.ts, pieces common to the three session functions

\* `if (unlisten) unlisten();` in stop / dispose / cancel: removes the
\* handle's listener once the listen() promise has assigned unlisten.
CallUnlistenUnguarded(h) ==
    IF unlisten[h] THEN [ls |-> listeners \ {h}, crash |-> crashed]
                   ELSE [ls |-> listeners, crash |-> TRUE]

CallUnlisten(h) ==
    IF unlisten[h] THEN [ls |-> listeners \ {h}, crash |-> crashed]
                   ELSE [ls |-> listeners, crash |-> crashed]

\* The listener callback `(event) => { if (active) onData(event.payload); }`:
\* the payloads the callback hands to onData / onProgress.
ListenerCallbackUnguarded(h, payload) == Append(delivered[h], payload)

ListenerCallback(h, payload) ==
    IF active[h] THEN Append(delivered[h], payload) ELSE delivered[h]

----------------------------------------------------------------------------
\* lib/api.ts: startLogs

\* startLogs(id, onData, options): draws the session id, starts setup().
startLogs(h, ts) ==
    /\ kind[h] = "none"
    /\ FreshIds # {}
    /\ kind' = [kind EXCEPT ![h] = "logs"]
    /\ sid' = [sid EXCEPT ![h] = RandomId]
    /\ active' = [active EXCEPT ![h] = TRUE]
    /\ unlisten' = [unlisten EXCEPT ![h] = FALSE]
    /\ pc' = [pc EXCEPT ![h] = "listen"]
    /\ args' = [args EXCEPT ![h] = [cols |-> 0, rows |-> 0, ts |-> ts]]

\* setup(), first await: listen() resolves, unlisten = cleanup, then
\* start_logs is invoked if still active, else cleanup() is called.
setupLogs_listenAlwaysStarts(h) ==
    /\ JsIdle
    /\ kind[h] = "logs" /\ pc[h] = "listen"
    /\ unlisten' = [unlisten EXCEPT ![h] = TRUE]
    /\ listeners' = listeners \cup {h}
    /\ cmds' = cmds \cup {Cmd("start", "logs", sid[h], h, 0, args[h].ts, 0, 0)}
    /\ startIssued' = startIssued \cup {h}
    /\ pc' = [pc EXCEPT ![h] = "start"]
    /\ UNCHANGED <<kind, sid, active, args, evq, resp, backendVars, stopCalls, stopResults,
                   delivered, crashed, writes, resizeCalls, onEndCount, onErrorCount,
                   viewVars>>

setupLogs_listen(h) ==
    /\ JsIdle
    /\ kind[h] = "logs" /\ pc[h] = "listen"
    /\ unlisten' = [unlisten EXCEPT ![h] = TRUE]
    /\ IF active[h]
          THEN /\ listeners' = listeners \cup {h}
               /\ cmds' = cmds \cup {Cmd("start", "logs", sid[h], h, 0, args[h].ts, 0, 0)}
               /\ startIssued' = startIssued \cup {h}
               /\ pc' = [pc EXCEPT ![h] = "start"]
          ELSE /\ listeners' = listeners \ {h}
               /\ cmds' = cmds
               /\ startIssued' = startIssued
               /\ pc' = [pc EXCEPT ![h] = "done"]
    /\ UNCHANGED <<kind, sid, active, args, evq, resp, backendVars, stopCalls, stopResults,
                   delivered, crashed, writes, resizeCalls, onEndCount, onErrorCount,
                   viewVars>>

\* setup(), second await: invoke("start_logs") resolves; its result is not read.
setupLogs_started(h) ==
    /\ JsIdle
    /\ kind[h] = "logs" /\ pc[h] = "start" /\ resp[h] # "none"
    /\ pc' = [pc EXCEPT ![h] = "done"]
    /\ UNCHANGED <<kind, sid, active, unlisten, args, busVars, backendVars, obsVars,
                   viewVars>>

\* The function startLogs returns.
stopLogs_api(h) ==
    /\ active' = [active EXCEPT ![h] = FALSE]
    /\ listeners' = CallUnlisten(h).ls
    /\ crashed' = CallUnlisten(h).crash
    /\ cmds' = cmds \cup {Cmd("stop", "logs", sid[h], h, stopCalls[h] + 1, "", 0, 0)}
    /\ stopCalls' = [stopCalls EXCEPT ![h] = @ + 1]

----------------------------------------------------------------------------
\* lib/api.ts: startExec

\* Terminal sizes; 80 x 24 is the size ExecView falls back to.
DefaultSize == [cols |-> 80, rows |-> 24]
Sizes == {DefaultSize, [cols |-> 120, rows |-> 40]}
Data == {"a", "b"}

\* startExec(sessionId, _cols, _rows, onData, containerId): the session id
\* is the caller's.
startExec(h, s, size) ==
    /\ kind[h] = "none"
    /\ kind' = [kind EXCEPT ![h] = "exec"]
    /\ sid' = [sid EXCEPT ![h] = s]
    /\ active' = [active EXCEPT ![h] = TRUE]
    /\ unlisten' = [unlisten EXCEPT ![h] = FALSE]
    /\ pc' = [pc EXCEPT ![h] = "listen"]
    /\ args' = [args EXCEPT ![h] = [cols |-> size.cols, rows |-> size.rows, ts |-> ""]]

\* invoke("start_exec", { sessionId, containerId }): the request carries
\* neither _cols nor _rows.
StartExecRequest(h) == Cmd("start", "exec", sid[h], h, 0, "", 0, 0)

setupExec_listen(h) ==
    /\ JsIdle
    /\ kind[h] = "exec" /\ pc[h] = "listen"
    /\ unlisten' = [unlisten EXCEPT ![h] = TRUE]
    /\ IF active[h]
          THEN /\ listeners' = listeners \cup {h}
               /\ cmds' = cmds \cup {StartExecRequest(h)}
               /\ startIssued' = startIssued \cup {h}
               /\ pc' = [pc EXCEPT ![h] = "start"]
          ELSE /\ listeners' = listeners \ {h}
               /\ cmds' = cmds
               /\ startIssued' = startIssued
               /\ pc' = [pc EXCEPT ![h] = "done"]
    /\ UNCHANGED <<kind, sid, active, args, evq, resp, backendVars, stopCalls, stopResults,
                   delivered, crashed, callObs, viewVars>>

\* invoke("start_exec") resolves; its result is not read.
setupExec_started(h) ==
    /\ JsIdle
    /\ kind[h] = "exec" /\ pc[h] = "start" /\ resp[h] # "none"
    /\ pc' = [pc EXCEPT ![h] = "done"]
    /\ UNCHANGED <<kind, sid, active, unlisten, args, busVars, backendVars, obsVars,
                   viewVars>>

\* write(data): `if (active) invoke("exec_input", { sessionId, data })`.
\* n is the position of the call among the writes of the handle.
write_apiUnguarded(h, d) ==
    /\ writes' = [writes EXCEPT ![h] = @ + 1]
    /\ cmds' = cmds \cup {Cmd("input", "exec", sid[h], h, writes[h] + 1, d, 0, 0)}

write_api(h, d) ==
    /\ writes' = [writes EXCEPT ![h] = @ + 1]
    /\ cmds' = IF active[h]
                  THEN cmds \cup {Cmd("input", "exec", sid[h], h, writes[h] + 1, d, 0, 0)}
                  ELSE cmds

\* resize(_w, _h): "Resize not implemented yet": the body is empty.
resize_api(h, size) ==
    /\ resizeCalls' = [resizeCalls EXCEPT ![h] = @ + 1]
    /\ cmds' = cmds

\* dispose()
dispose_api(h) ==
    /\ active' = [active EXCEPT ![h] = FALSE]
    /\ listeners' = CallUnlisten(h).ls
    /\ crashed' = CallUnlisten(h).crash
    /\ cmds' = cmds \cup {Cmd("stop", "exec", sid[h], h, stopCalls[h] + 1, "", 0, 0)}
    /\ stopCalls' = [stopCalls EXCEPT ![h] = @ + 1]

----------------------------------------------------------------------------
\* lib/api.ts: pullImage

pullImage(h) ==
    /\ kind[h] = "none"
    /\ FreshIds # {}
    /\ kind' = [kind EXCEPT ![h] = "pull"]
    /\ sid' = [sid EXCEPT ![h] = RandomId]
    /\ active' = [active EXCEPT ![h] = TRUE]
    /\ unlisten' = [unlisten EXCEPT ![h] = FALSE]
    /\ pc' = [pc EXCEPT ![h] = "listen"]
    /\ args' = [args EXCEPT ![h] = NoArgs]

\* setup(), first await: listen() resolves; pull_image is invoked if still
\* active, else cleanup() and neither onEnd nor onError is called.
setupPull_listen(h) ==
    /\ JsIdle
    /\ kind[h] = "pull" /\ pc[h] = "listen"
    /\ unlisten' = [unlisten EXCEPT ![h] = TRUE]
    /\ IF active[h]
          THEN /\ listeners' = listeners \cup {h}
               /\ cmds' = cmds \cup {Cmd("start", "pull", sid[h], h, 0, "", 0, 0)}
               /\ startIssued' = startIssued \cup {h}
               /\ pc' = [pc EXCEPT ![h] = "start"]
          ELSE /\ listeners' = listeners \ {h}
               /\ cmds' = cmds
               /\ startIssued' = startIssued
               /\ pc' = [pc EXCEPT ![h] = "done"]
    /\ UNCHANGED <<kind, sid, active, args, evq, resp, backendVars, stopCalls, stopResults,
                   delivered, crashed, callObs, viewVars>>

\* The try / catch / finally around `await invoke("pull_image")`:
\* res.success calls onEnd, a failed res or a rejected invoke calls onError;
\* the result is the new <<onEndCount[h], onErrorCount[h]>>.
PullOutcomeBoth(h) ==
    IF resp[h] = "ok" THEN <<onEndCount[h] + 1, onErrorCount[h]>>
                      ELSE <<onEndCount[h] + 1, onErrorCount[h] + 1>>

PullOutcome(h) ==
    IF resp[h] = "ok" THEN <<onEndCount[h] + 1, onErrorCount[h]>>
                      ELSE <<onEndCount[h], onErrorCount[h] + 1>>

\* setup(), second await: invoke("pull_image") settles; finally cleanup().
setupPull_settled(h) ==
    /\ JsIdle
    /\ kind[h] = "pull" /\ pc[h] = "start" /\ resp[h] # "none"
    /\ onEndCount' = [onEndCount EXCEPT ![h] = PullOutcome(h)[1]]
    /\ onErrorCount' = [onErrorCount EXCEPT ![h] = PullOutcome(h)[2]]
    /\ listeners' = listeners \ {h}
    /\ pc' = [pc EXCEPT ![h] = "done"]
    /\ UNCHANGED <<kind, sid, active, unlisten, args, evq, cmds, resp, backendVars,
                   stopCalls, stopResults, startIssued, delivered, crashed, writes,
                   resizeCalls, viewVars>>

\* The cancel function pullImage returns.
cancel_api(h) ==
    /\ active' = [active EXCEPT ![h] = FALSE]
    /\ listeners' = CallUnlisten(h).ls
    /\ crashed' = CallUnlisten(h).crash
    /\ cmds' = cmds \cup {Cmd("stop", "pull", sid[h], h, stopCalls[h] + 1, "", 0, 0)}
    /\ stopCalls' = [stopCalls EXCEPT ![h] = @ + 1]

----------------------------------------------------------------------------
\* A client of lib/api.ts that calls the functions directly.

callStartLogs(h, ts) ==
    /\ FreeHandles # {} /\ h = NewHandle
    /\ startLogs(h, ts)
    /\ UNCHANGED <<busVars, backendVars, obsVars, viewVars>>

callStartExec(h, s, size) ==
    /\ FreeHandles # {} /\ h = NewHandle
    /\ startExec(h, s, size)
    /\ UNCHANGED <<busVars, backendVars, obsVars, viewVars>>

callPullImage(h) ==
    /\ FreeHandles # {} /\ h = NewHandle
    /\ pullImage(h)
    /\ UNCHANGED <<busVars, backendVars, obsVars, viewVars>>

\* The stop / dispose / cancel function of a handle is called.
callStop(h) ==
    /\ kind[h] # "none" /\ stopCalls[h] < MaxStops
    /\ CASE kind[h] = "logs" -> stopLogs_api(h)
         [] kind[h] = "exec" -> dispose_api(h)
         [] kind[h] = "pull" -> cancel_api(h)
    /\ UNCHANGED <<kind, sid, unlisten, pc, args, evq, resp, backendVars, stopResults,
                   startIssued, delivered, callObs, viewVars>>

RECURSIVE SumOver(_, _)
SumOver(f, S) == IF S = {} THEN 0
                 ELSE LET x == CHOOSE y \in S : TRUE IN f[x] + SumOver(f, S \ {x})

\* The client makes at most MaxWrites write calls and MaxResizes resize calls.
TotalWrites == SumOver(writes, Handles)
TotalResizes == SumOver(resizeCalls, Handles)

callWrite(h, d) ==
    /\ kind[h] = "exec" /\ TotalWrites < MaxWrites
    /\ write_api(h, d)
    /\ UNCHANGED <<apiVars, listeners, evq, resp, backendVars, stopCalls, stopResults,
                   startIssued, delivered, crashed, resizeCalls, onEndCount, onErrorCount,
                   viewVars>>

callResize(h, size) ==
    /\ kind[h] = "exec" /\ TotalResizes < MaxResizes
    /\ resize_api(h, size)
    /\ UNCHANGED <<apiVars, listeners, evq, resp, backendVars, stopCalls, stopResults,
                   startIssued, delivered, crashed, writes, onEndCount, onErrorCount,
                   viewVars>>

\* An event reaches the listener callback of a handle of the client.
apiEvent(h) ==
    /\ JsIdle
    /\ kind[h] # "none" /\ evq[h] # <<>>
    /\ evq' = [evq EXCEPT ![h] = Tail(@)]
    /\ delivered' = [delivered EXCEPT ![h] = ListenerCallback(h, Head(evq[h]))]
    /\ UNCHANGED <<apiVars, listeners, cmds, resp, backendVars, stopCalls, stopResults,
                   startIssued, crashed, callObs, viewVars>>

----------------------------------------------------------------------------
\* LogsView

\* `buffer += chunk`, the onData callback LogsView passes to startLogs.
LogsOnDataOverwrite(h, chunk) == <<chunk>>

LogsOnData(h, chunk) == buffer[h] \o <<chunk>>

\* An event of `logs-${sessionId}` reaches the listener callback of handle h.
logsEvent(h) ==
    /\ JsIdle
    /\ kind[h] = "logs" /\ evq[h] # <<>>
    /\ evq' = [evq EXCEPT ![h] = Tail(@)]
    /\ delivered' = [delivered EXCEPT ![h] = ListenerCallback(h, Head(evq[h]))]
    /\ buffer' = IF delivered'[h] # delivered[h]
                    THEN [buffer EXCEPT ![h] = LogsOnData(h, Head(evq[h]))]
                    ELSE buffer
    /\ UNCHANGED <<apiVars, listeners, cmds, resp, backendVars, stopCalls, stopResults,
                   startIssued, crashed, callObs, logsMounted, logsEffect, showTimestamps,
                   xtermRef, stopLogsRef, flushInterval, written, execViewVars, hookVars>>

\* flushBuffer, run by setInterval(flushBuffer, 50) of the effect run of h.
flushBuffer(h) ==
    /\ JsIdle
    /\ h \in flushInterval
    /\ buffer[h] # <<>> /\ xtermRef # NoHandle
    /\ written' = [written EXCEPT ![xtermRef] = @ \o buffer[h]]
    /\ buffer' = [buffer EXCEPT ![h] = <<>>]
    /\ UNCHANGED <<apiVars, busVars, backendVars, obsVars, logsMounted, logsEffect,
                   showTimestamps, xtermRef, stopLogsRef, flushInterval, execViewVars, hookVars>>

\* The cleanup the effect returns: clearInterval, stopLogsRef.current(),
\* xtermRef.current = null.  The interval and the stop function are those of
\* the effect run stopLogsRef was assigned in.
LogsCleanupKeepsSession ==
    /\ flushInterval' = flushInterval \ {stopLogsRef}
    /\ xtermRef' = NoHandle
    /\ UNCHANGED <<active, listeners, crashed, cmds, stopCalls>>
    /\ UNCHANGED <<kind, sid, unlisten, pc, args, evq, resp, backendVars, stopResults,
                   startIssued, delivered, callObs, stopLogsRef, buffer, written,
                   execViewVars, hookVars>>

LogsCleanup ==
    /\ flushInterval' = flushInterval \ {stopLogsRef}
    /\ stopLogs_api(stopLogsRef)
    /\ xtermRef' = NoHandle
    /\ UNCHANGED <<kind, sid, unlisten, pc, args, evq, resp, backendVars, stopResults,
                   startIssued, delivered, callObs, stopLogsRef, buffer, written,
                   execViewVars, hookVars>>

\* The component is mounted: the effect is due.
LogsViewMount ==
    /\ ~logsMounted /\ stopLogsRef = NoHandle
    /\ logsMounted' = TRUE
    /\ logsEffect' = "pending"
    /\ UNCHANGED <<apiVars, busVars, backendVars, obsVars, showTimestamps, xtermRef,
                   stopLogsRef, flushInterval, buffer, written, execViewVars, hookVars>>

\* setShowTimestamps(!showTimestamps): the dependency changes, the old
\* effect is cleaned up and a new run is due.
ToggleTimestamps ==
    /\ JsIdle /\ logsMounted
    /\ FreeHandles # {}
    /\ showTimestamps' = ~showTimestamps
    /\ LogsCleanup
    /\ logsEffect' = "pending"
    /\ UNCHANGED logsMounted

\* The effect body: new terminal, buffer, flush interval, startLogs.
LogsViewEffect(h) ==
    /\ logsEffect = "pending"
    /\ FreeHandles # {} /\ h = NewHandle
    /\ startLogs(h, IF showTimestamps THEN "timestamps" ELSE "")
    /\ xtermRef' = h
    /\ stopLogsRef' = h
    /\ flushInterval' = flushInterval \cup {h}
    /\ buffer' = [buffer EXCEPT ![h] = <<>>]
    /\ logsEffect' = "idle"
    /\ UNCHANGED <<busVars, backendVars, obsVars, logsMounted, showTimestamps, written,
                   execViewVars, hookVars>>

LogsViewUnmount ==
    /\ JsIdle /\ logsMounted
    /\ LogsCleanup
    /\ logsMounted' = FALSE
    /\ UNCHANGED <<logsEffect, showTimestamps>>

----------------------------------------------------------------------------
\* ExecView

\* The guard of the effect: `if (!containerId || !terminalRef.current ||
\* !isRunning || !active || initializedRef.current) return;`.  The terminal
\* div, and so terminalRef.current, exists exactly when the render the
\* effect follows had isRunning true.
ExecEffectGuardNoRunning == tabActive /\ ~initializedRef

ExecEffectGuard == isRunning /\ tabActive /\ ~initializedRef

\* The cleanup the effect returns, when a run returned one: disposed = true,
\* currentExecSession.dispose(), the refs are reset.
ExecCleanup ==
    IF currentExecSession # NoHandle
       THEN /\ disposed' = disposed \cup {currentExecSession}
            /\ dispose_api(currentExecSession)
            /\ initializedRef' = FALSE
            /\ currentExecSession' = NoHandle
       ELSE UNCHANGED <<disposed, active, listeners, crashed, cmds, stopCalls,
                        initializedRef, currentExecSession>>

\* ContainerDrawer renders ExecView for the selected container.
ExecViewMount ==
    /\ ~execMounted /\ FreeHandles = Handles
    /\ execMounted' = TRUE
    /\ execEffect' = "pending"
    /\ UNCHANGED <<apiVars, busVars, backendVars, obsVars, logsViewVars, hookVars, isRunning, tabActive,
                   initializedRef, currentExecSession, disposed, termText>>

\* A dependency of the effect changes: the old run is cleaned up and a new
\* run is due.  A session is started only while the model has a handle left.
ExecCommit ==
    /\ ExecCleanup
    /\ execEffect' = "pending"
    /\ (isRunning' /\ tabActive') => FreeHandles # {}
    /\ UNCHANGED <<kind, sid, unlisten, pc, args, evq, resp, backendVars, stopResults,
                   startIssued, delivered, callObs, logsViewVars, hookVars, execMounted, termText>>

\* The Terminal tab is selected or left (setTab in ContainerDrawer).
SelectTab ==
    /\ JsIdle /\ execMounted
    /\ tabActive' = ~tabActive
    /\ isRunning' = isRunning
    /\ ExecCommit

\* The container list is fetched again and container.State has changed.
ContainerListRefresh ==
    /\ JsIdle /\ execMounted
    /\ isRunning # containerRunning
    /\ isRunning' = containerRunning
    /\ tabActive' = tabActive
    /\ ExecCommit

\* The effect body.
ExecViewEffect ==
    /\ execEffect = "pending"
    /\ execEffect' = "idle"
    /\ IF ExecEffectGuard
          THEN /\ FreeHandles # {} /\ FreshIds # {}
               /\ initializedRef' = TRUE
               /\ \E size \in Sizes : startExec(NewHandle, RandomId, size)
               /\ currentExecSession' = NewHandle
          ELSE UNCHANGED <<apiVars, initializedRef, currentExecSession>>
    /\ UNCHANGED <<busVars, backendVars, obsVars, logsViewVars, hookVars, execMounted, isRunning,
                   tabActive, disposed, termText>>

ExecViewUnmount ==
    /\ JsIdle /\ execMounted
    /\ ExecCleanup
    /\ execMounted' = FALSE
    /\ UNCHANGED <<kind, sid, unlisten, pc, args, evq, resp, backendVars, stopResults,
                   startIssued, delivered, callObs, logsViewVars, hookVars, execEffect, isRunning,
                   tabActive, termText>>

\* An event of `exec-${sessionId}` reaches the listener callback of a handle
\* ExecView started; its onData is `if (!disposed) term.write(data)`.
execViewEvent(h) ==
    /\ JsIdle
    /\ kind[h] = "exec" /\ evq[h] # <<>>
    /\ evq' = [evq EXCEPT ![h] = Tail(@)]
    /\ delivered' = [delivered EXCEPT ![h] = ListenerCallback(h, Head(evq[h]))]
    /\ termText' = IF delivered'[h] # delivered[h] /\ h \notin disposed
                      THEN [termText EXCEPT ![h] = Append(@, Head(evq[h]))]
                      ELSE termText
    /\ UNCHANGED <<apiVars, listeners, cmds, resp, backendVars, stopCalls, stopResults,
                   startIssued, crashed, callObs, logsViewVars, hookVars, execMounted, execEffect,
                   isRunning, tabActive, initializedRef, currentExecSession, disposed>>

\* The container is stopped or started (docker stop / start, from anywhere).
ContainerStateChange ==
    /\ containerRunning' = ~containerRunning
    /\ UNCHANGED <<apiVars, busVars, registry, ptyInput, emitted, obsVars, viewVars>>

----------------------------------------------------------------------------
\* Backend command layer (Session Registry and Stream Sessions).  The
\* backend handles the commands in flight one at a time, in any order.

\* start_logs / start_exec / pull_image: the registry rejects a live id with
\* AlreadyExists and an exec on a container that is not running with
\* InvalidState; otherwise the session is registered.  start_logs and
\* start_exec answer at once, pull_image answers when the pull has ended.
backend_start(c) ==
    /\ c \in cmds /\ c.op = "start"
    /\ cmds' = cmds \ {c}
    /\ IF Live(c.kind, c.sid)
          THEN /\ resp' = [resp EXCEPT ![c.h] = "AlreadyExists"]
               /\ registry' = registry
          ELSE IF c.kind = "exec" /\ ~containerRunning
          THEN /\ resp' = [resp EXCEPT ![c.h] = "InvalidState"]
               /\ registry' = registry
          ELSE /\ resp' = IF c.kind = "pull" THEN resp ELSE [resp EXCEPT ![c.h] = "ok"]
               /\ registry' = registry \cup {[kind |-> c.kind, sid |-> c.sid, owner |-> c.h]}
    /\ UNCHANGED <<apiVars, listeners, evq, ptyInput, emitted, containerRunning, obsVars,
                   viewVars>>

\* start_logs when the attach fails (container not found, runtime
\* unreachable): Failed at once, nothing registered.
backend_attach_fail(c) ==
    /\ c \in cmds /\ c.op = "start" /\ c.kind = "logs"
    /\ ~Live(c.kind, c.sid)
    /\ cmds' = cmds \ {c}
    /\ resp' = [resp EXCEPT ![c.h] = "err"]
    /\ UNCHANGED <<apiVars, listeners, evq, backendVars, obsVars, viewVars>>

\* The answer pull_image gives when its session was cancelled.
CancelOutcome == "err"

\* stop_logs / stop_exec / stop_pull: cancels and removes the session, or
\* answers NotFound when no session has that id.
backend_stop(c) ==
    /\ c \in cmds /\ c.op = "stop"
    /\ cmds' = cmds \ {c}
    /\ IF Live(c.kind, c.sid)
          THEN LET e == CHOOSE x \in registry : x.kind = c.kind /\ x.sid = c.sid
               IN /\ registry' = registry \ {e}
                  /\ stopResults' = [stopResults EXCEPT ![c.h] = Append(@, "Ok")]
                  /\ resp' = IF c.kind = "pull"
                                THEN [resp EXCEPT ![e.owner] = CancelOutcome]
                                ELSE resp
          ELSE /\ registry' = registry
               /\ stopResults' = [stopResults EXCEPT ![c.h] = Append(@, "NotFound")]
               /\ resp' = resp
    /\ UNCHANGED <<apiVars, listeners, evq, ptyInput, emitted, containerRunning, stopCalls,
                   startIssued, delivered, crashed, callObs, viewVars>>

\* exec_input: the data is written to the pty of the session, if it is live.
backend_input(c) ==
    /\ c \in cmds /\ c.op = "input"
    /\ cmds' = cmds \ {c}
    /\ ptyInput' = IF Live("exec", c.sid)
                      THEN [ptyInput EXCEPT ![c.sid] = Append(@, [h |-> c.h, n |-> c.n, data |-> c.data])]
                      ELSE ptyInput
    /\ UNCHANGED <<apiVars, listeners, evq, resp, registry, emitted, containerRunning,
                   obsVars, viewVars>>

\* The payload of the n-th event, produced by the session with id s.
Payload(n, s) == [n |-> n, src |-> s]

\* A live session produces output (a log chunk, pty output, a progress
\* record): one event on its channel, queued for every listener of it.
backend_emit(e) ==
    /\ e \in registry /\ emitted < MaxEvents
    /\ emitted' = emitted + 1
    /\ evq' = [h \in Handles |->
                 IF h \in ListenersOf(e.kind, e.sid)
                    THEN Append(evq[h], Payload(emitted + 1, e.sid))
                    ELSE evq[h]]
    /\ UNCHANGED <<apiVars, listeners, cmds, resp, registry, ptyInput, containerRunning,
                   obsVars, viewVars>>

\* A session ends by itself (end of stream, remote process exit, pull
\* finished or failed): its entry is removed; a pull answers its outcome.
backend_end(e, outcome) ==
    /\ e \in registry
    /\ registry' = registry \ {e}
    /\ resp' = IF e.kind = "pull" THEN [resp EXCEPT ![e.owner] = outcome] ELSE resp
    /\ UNCHANGED <<apiVars, listeners, evq, cmds, ptyInput, emitted, containerRunning,
                   obsVars, viewVars>>

----------------------------------------------------------------------------
\* Specification of the log stream: LogsView over api.startLogs.

NextLogs ==
    \/ LogsViewMount
    \/ ToggleTimestamps
    \/ LogsViewUnmount
    \/ \E h \in Handles : LogsViewEffect(h)
    \/ \E h \in Handles : setupLogs_listen(h)
    \/ \E h \in Handles : setupLogs_started(h)
    \/ \E h \in Handles : logsEvent(h)
    \/ \E h \in Handles : flushBuffer(h)
    \/ \E c \in cmds : backend_start(c)
    \/ \E c \in cmds : backend_attach_fail(c)
    \/ \E c \in cmds : backend_stop(c)
    \/ \E e \in registry : backend_emit(e)
    \/ \E e \in registry : backend_end(e, "ok")

SpecLogs == Init /\ [][NextLogs]_vars

----------------------------------------------------------------------------
\* Specification of one session of lib/api.ts (a log stream, an exec
\* session or a pull) under a client that calls the functions directly and
\* may call the stop function at any time, more than once.

NextSession ==
    \/ \E h \in Handles, ts \in {"", "timestamps"} :
          FreeHandles = Handles /\ callStartLogs(h, ts)
    \/ \E h \in Handles, s \in SessionIds, size \in Sizes :
          FreeHandles = Handles /\ callStartExec(h, s, size)
    \/ \E h \in Handles : FreeHandles = Handles /\ callPullImage(h)
    \/ \E h \in Handles : callStop(h)
    \/ \E h \in Handles : setupLogs_listen(h)
    \/ \E h \in Handles : setupLogs_started(h)
    \/ \E h \in Handles : setupExec_listen(h)
    \/ \E h \in Handles : setupExec_started(h)
    \/ \E h \in Handles : setupPull_listen(h)
    \/ \E h \in Handles : setupPull_settled(h)
    \/ \E h \in Handles : apiEvent(h)
    \/ \E c \in cmds : backend_start(c)
    \/ \E c \in cmds : backend_attach_fail(c)
    \/ \E c \in cmds : backend_stop(c)
    \/ \E e \in registry : backend_emit(e)
    \/ \E e \in registry, outcome \in {"ok", "err", "reject"} : backend_end(e, outcome)

SpecSession == Init /\ [][NextSession]_vars

----------------------------------------------------------------------------
\* Specification of one exec session of lib/api.ts with its input side: a
\* client that starts it, writes, resizes and disposes.

NextExecIO ==
    \/ \E h \in Handles, s \in SessionIds, size \in Sizes :
          FreeHandles = Handles /\ callStartExec(h, s, size)
    \/ \E h \in Handles : callStop(h)
    \/ \E h \in Handles, d \in Data : callWrite(h, d)
    \/ \E h \in Handles, size \in Sizes : callResize(h, size)
    \/ \E h \in Handles : setupExec_listen(h)
    \/ \E h \in Handles : setupExec_started(h)
    \/ \E h \in Handles : apiEvent(h)
    \/ \E c \in cmds : backend_start(c)
    \/ \E c \in cmds : backend_stop(c)
    \/ \E c \in cmds : backend_input(c)
    \/ \E e \in registry : backend_emit(e)
    \/ \E e \in registry : backend_end(e, "ok")

SpecExecIO == Init /\ [][NextExecIO]_vars

----------------------------------------------------------------------------
\* Properties of one session (SpecSession)

InFlight(h) == {c \in cmds : c.h = h}
StopsIssued(h) == Cardinality({c \in cmds : c.h = h /\ c.op = "stop"}) + Len(stopResults[h])
OkStops(h) == {i \in 1..Len(stopResults[h]) : stopResults[h][i] = "Ok"}
Resolutions(h) == onEndCount[h] + onErrorCount[h]

\* C1: once the stop function of api.startLogs has been called, setup() has
\* returned and every command of the handle has been handled, no session
\* with the handle's id is registered.
C1_StoppedLogSessionIsRemoved ==
    \A h \in Handles :
        (kind[h] = "logs" /\ stopCalls[h] >= 1 /\ pc[h] = "done" /\ InFlight(h) = {})
            => ~Live("logs", sid[h])

C24_NoStartAfterStop ==
    /\ [][\A h \in startIssued' \ startIssued : stopCalls[h] = 0 /\ stopCalls'[h] = 0]_vars
    /\ [](\A h \in Handles : (stopCalls[h] >= 1 /\ pc[h] # "listen") => h \notin listeners)
    /\ [](\A h \in Handles : (stopCalls[h] >= 1 /\ h \notin startIssued) =>
             \A c \in cmds : ~(c.op = "start" /\ c.h = h))

\* C24 witness: stop was called before listen() resolved; setup has run to
\* its end and no start command was issued.
C24_Witness ==
    \E h \in Handles :
        /\ kind[h] = "pull" /\ stopCalls[h] >= 1 /\ pc[h] = "done" /\ unlisten[h]
        /\ h \notin startIssued /\ h \notin listeners

\* C16: once the cancel function of a pull has been called, onError is not
\* invoked for that pull: a pull the user stopped does not end as a failure.
C16_CancelledPullIsNotAFailure ==
    [][\A h \in Handles :
          (kind[h] = "pull" /\ stopCalls[h] >= 1) => onErrorCount'[h] = onErrorCount[h]]_vars

\* C17: when the start_logs / start_exec of a handle has failed and setup()
\* has returned, the caller that started the session has been told: a
\* callback it passed was invoked with the failure.
C17_FailedStartIsObservable ==
    \A h \in Handles :
        (kind[h] \in {"logs", "exec"} /\ pc[h] = "done" /\ h \in startIssued
            /\ resp[h] \notin {"none", "ok"})
            => onErrorCount[h] >= 1

----------------------------------------------------------------------------
\* Properties of the input side of one exec session (SpecExecIO)

\* C5: the data of the writes of one handle reaches the pty in the order of
\* the write calls.
C5_WritesArriveInOrder ==
    \A s \in SessionIds :
        \A i, j \in 1..Len(ptyInput[s]) :
            (i < j /\ ptyInput[s][i].h = ptyInput[s][j].h)
                => ptyInput[s][i].n < ptyInput[s][j].n

\* C7 (checked under SpecSession, for the three kinds of session): calling
\* the stop function of a session twice is harmless: nothing
\* crashes, every stop command is answered Ok or NotFound, at most one of
\* them releases the backend session, and once setup() is past listen() the
\* event listener of a stopped handle is released.
C7_DoubleStopHarmless ==
    /\ ~crashed
    /\ \A h \in Handles :
        /\ \A i \in 1..Len(stopResults[h]) : stopResults[h][i] \in {"Ok", "NotFound"}
        /\ Cardinality(OkStops(h)) <= 1
        /\ (stopCalls[h] >= 1 /\ pc[h] # "listen") => h \notin listeners

\* C7 witness: stop was called twice on a started session; the first
\* command released the session, the second was answered NotFound.
C7_Witness ==
    \E h \in Handles :
        /\ stopCalls[h] = 2 /\ h \in startIssued
        /\ stopResults[h] = <<"Ok", "NotFound">>

\* C8: every resize call on a live exec handle issues a resize command with
\* the cols and rows of the call for the session.
C8_ResizeIsPropagated ==
    [][\A h \in Handles :
          (kind[h] = "exec" /\ active[h] /\ resizeCalls'[h] > resizeCalls[h])
              => \E c \in cmds' \ cmds : c.op = "resize" /\ c.sid = sid[h] /\ c.cols > 0]_vars

\* C9: the start_exec request of a handle carries the cols and rows the
\* caller passed to api.startExec.
C9_StartCarriesSize ==
    \A c \in cmds :
        (c.op = "start" /\ c.kind = "exec")
            => c.cols = args[c.h].cols /\ c.rows = args[c.h].rows

----------------------------------------------------------------------------
\* Specification of exec sessions of lib/api.ts: a client that starts two
\* exec sessions with ids of its choice (the first id is called s1; the
\* second call reuses it only while the first session is live), and on each
\* handle writes once and disposes once.

NextExecApi ==
    \/ \E h \in Handles, s \in SessionIds :
          /\ FreeHandles = Handles => s = "s1"
          /\ s \in UsedIds => Live("exec", s)
          /\ callStartExec(h, s, DefaultSize)
    \/ \E h \in Handles : stopCalls[h] = 0 /\ callStop(h)
    \/ \E h \in Handles, d \in Data : writes[h] = 0 /\ callWrite(h, d)
    \/ \E h \in Handles : setupExec_listen(h)
    \/ \E h \in Handles : setupExec_started(h)
    \/ \E h \in Handles : apiEvent(h)
    \/ \E c \in cmds : backend_start(c)
    \/ \E c \in cmds : backend_stop(c)
    \/ \E c \in cmds : backend_input(c)
    \/ \E e \in registry : backend_emit(e)
    \/ \E e \in registry : backend_end(e, "ok")

SpecExecApi == Init /\ [][NextExecApi]_vars

\* C2: a second startExec with the session id of a live session is answered
\* AlreadyExists and leaves the first session unaffected: none of that
\* session's output reaches the second caller's onData, no write of the
\* second handle is fed to its pseudo-terminal, and no dispose of the second
\* handle stops it.
C2_DuplicateStartLeavesFirstUnaffected ==
    \A h \in Handles :
        (kind[h] = "exec" /\ resp[h] = "AlreadyExists")
            => /\ delivered[h] = <<>>
               /\ \A i \in 1..Len(ptyInput[sid[h]]) : ptyInput[sid[h]][i].h # h
               /\ \A i \in 1..Len(stopResults[h]) : stopResults[h][i] # "Ok"

----------------------------------------------------------------------------
\* Specification of two terminals on one container: two exec sessions
\* started the way ExecView starts them, each with a session id of its own
\* drawn at the call; on each handle the client writes once and disposes
\* once.

NextExecPair ==
    \/ \E h \in Handles : FreshIds # {} /\ callStartExec(h, RandomId, DefaultSize)
    \/ \E h \in Handles : stopCalls[h] = 0 /\ callStop(h)
    \/ \E h \in Handles, d \in Data : writes[h] = 0 /\ callWrite(h, d)
    \/ \E h \in Handles : setupExec_listen(h)
    \/ \E h \in Handles : setupExec_started(h)
    \/ \E h \in Handles : apiEvent(h)
    \/ \E c \in cmds : backend_start(c)
    \/ \E c \in cmds : backend_stop(c)
    \/ \E c \in cmds : backend_input(c)
    \/ \E e \in registry : backend_emit(e)
    \/ \E e \in registry : backend_end(e, "ok")

SpecExecPair == Init /\ [][NextExecPair]_vars

\* C11: two exec sessions open on one container are independent: their
\* session ids differ, onData of a handle receives only output of the
\* handle's own session, the input a session's pseudo-terminal receives was
\* written on the handle of that session, and a stop_exec of one handle
\* removes no session but the handle's own.
C11_ConcurrentExecSessionsIndependent ==
    /\ [](\A h1, h2 \in Handles :
            (h1 # h2 /\ kind[h1] = "exec" /\ kind[h2] = "exec") => sid[h1] # sid[h2])
    /\ [](\A h \in Handles :
            /\ \A i \in 1..Len(delivered[h]) : delivered[h][i].src = sid[h]
            /\ \A e \in registry : e.owner = h => e.sid = sid[h])
    /\ [](\A s \in SessionIds :
            \A i \in 1..Len(ptyInput[s]) : sid[ptyInput[s][i].h] = s)
    /\ [][\A c \in cmds \ cmds' :
            c.op = "stop" => \A e \in registry \ registry' : e.owner = c.h]_vars

\* C11 witness: both sessions are live, each handle has received output and
\* each pseudo-terminal has received input, and then one handle was
\* disposed and its session removed while the other session is still live.
C11_Witness ==
    \E h1, h2 \in Handles :
        /\ h1 # h2 /\ kind[h1] = "exec" /\ kind[h2] = "exec"
        /\ delivered[h1] # <<>> /\ delivered[h2] # <<>>
        /\ ptyInput[sid[h1]] # <<>> /\ ptyInput[sid[h2]] # <<>>
        /\ stopResults[h1] = <<"Ok">> /\ ~Live("exec", sid[h1])
        /\ Live("exec", sid[h2])

----------------------------------------------------------------------------
\* Specification of the terminal tab: ExecView over api.startExec, with the
\* container stopping and starting and the container list being refreshed.

NextExecView ==
    \/ ExecViewMount
    \/ SelectTab
    \/ ContainerListRefresh
    \/ ExecViewEffect
    \/ ExecViewUnmount
    \/ ContainerStateChange
    \/ \E h \in Handles : setupExec_listen(h)
    \/ \E h \in Handles : setupExec_started(h)
    \/ \E h \in Handles : execViewEvent(h)
    \/ \E c \in cmds : backend_start(c)
    \/ \E c \in cmds : backend_stop(c)
    \/ \E e \in registry : backend_emit(e)

SpecExecView == Init /\ [][NextExecView]_vars

\* C10: ExecView issues start_exec only while its isRunning prop is true, the
\* backend registers an exec session only while the container is running,
\* and a start it answers with InvalidState registers nothing.
C10_ExecOnlyOnRunningContainer ==
    [][/\ \A c \in cmds' \ cmds : (c.op = "start" /\ c.kind = "exec") => isRunning
       /\ \A e \in registry' \ registry : e.kind = "exec" => containerRunning
       /\ \A h \in Handles :
            (resp[h] = "none" /\ resp'[h] = "InvalidState")
                => (~containerRunning /\ registry' = registry)]_vars

\* C10 witness: ExecView started a session while its isRunning prop was
\* true, the container had stopped, and the start was rejected with
\* InvalidState.
C10_Witness ==
    \E h \in Handles :
        /\ kind[h] = "exec" /\ h \in startIssued /\ resp[h] = "InvalidState"
        /\ ~Live("exec", sid[h])

----------------------------------------------------------------------------
\* Properties of LogsView (SpecLogs)

\* C6: the text written to the terminal of an effect run is a prefix of the
\* chunks its onData received, in arrival order; while the flush interval of
\* the run is live, the text written followed by the buffer is exactly what
\* was received: no chunk is reordered, dropped or duplicated.
C6_TerminalTextIsPrefix ==
    \A h \in Handles :
        /\ IsPrefix(written[h], delivered[h])
        /\ h \in flushInterval => written[h] \o buffer[h] = delivered[h]

\* C6 witness: two chunks have been written to the terminal of a mounted
\* LogsView.
C6_Witness ==
    \E h \in Handles : h \in flushInterval /\ Len(written[h]) >= 2

----------------------------------------------------------------------------
\* useBatchContainerStats (hooks/useBatchContainerStats.ts)

\* An optional field (`online_cpus?`, `data?`) is <<>> when it is absent and
\* <<v>> when it is v.
None == <<>>
Some(v) == <<v>>
IsSome(o) == Len(o) > 0

\* The value a `x || y` chain takes x for: a number that is present and not 0.
TruthyNumber(o) == IsSome(o) /\ o[1] # 0

MaxEntries == 3

StatIds == {"c1", "c2", "c3"}

\* StatsResponse: the fields fetchAllStats reads.
Samples ==
    [cpu_total : {0, 100, 200}, precpu_total : {100},
     system_cpu_usage : {0, 100, 300}, presystem_cpu_usage : {100},
     online_cpus : {None, Some(0), Some(4)},
     percpu_usage : {None, Some(<<>>), Some(<<50, 50>>)},
     usage : {50}, cache : {None, Some(20)}]

BatchSamples ==
    {s \in Samples : /\ s.system_cpu_usage = 300 /\ s.cpu_total \in {100, 200}
                     /\ s.online_cpus = Some(4) /\ s.percpu_usage = None /\ s.cache = None}

SeqsUpTo(S, n) == UNION {[1..k -> S] : k \in 0..n}

\* The entries of a getBatchStats result and the result envelope.
Entries(samples) == [id : StatIds, success : BOOLEAN, data : {None} \cup {Some(s) : s \in samples}]

BatchResults(samples, n) ==
    [success : BOOLEAN, data : {None} \cup {Some(d) : d \in SeqsUpTo(Entries(samples), n)}]

\* A quotient kept exact: num / den.
RatDiv(a, b) == [num |-> a, den |-> b]
RatMul(r, k) == [num |-> r.num * k, den |-> r.den]

\* toFixed(2): the number of hundredths nearest to r.
ToFixed2(r) == (200 * r.num + r.den) \div (2 * r.den)

cpuDelta(s) == s.cpu_total - s.precpu_total
systemDelta(s) == s.system_cpu_usage - s.presystem_cpu_usage

\* online_cpus || percpu_usage?.length || 1
numberCpusNoPercpu(s) ==
    IF TruthyNumber(s.online_cpus) THEN s.online_cpus[1] ELSE 1

numberCpus(s) ==
    IF TruthyNumber(s.online_cpus) THEN s.online_cpus[1]
    ELSE IF IsSome(s.percpu_usage) /\ Len(s.percpu_usage[1]) # 0 THEN Len(s.percpu_usage[1])
    ELSE 1

\* cpuPercent
cpuPercentSystemOnly(s) ==
    IF systemDelta(s) > 0
       THEN RatMul(RatMul(RatDiv(cpuDelta(s), systemDelta(s)), numberCpus(s)), 100)
       ELSE RatDiv(0, 1)

cpuPercent(s) ==
    IF systemDelta(s) > 0 /\ cpuDelta(s) > 0
       THEN RatMul(RatMul(RatDiv(cpuDelta(s), systemDelta(s)), numberCpus(s)), 100)
       ELSE RatDiv(0, 1)

\* memUsage = usage - (stats?.cache || 0)
memUsage(s) == s.usage - (IF TruthyNumber(s.cache) THEN s.cache[1] ELSE 0)

\* The entry fetchAllStats stores for one result: `${cpuPercent.toFixed(2)}%`
\* and byteSize(memUsage) when it succeeded, '0%' and '0 B' when it failed.
FailedStats == [cpu |-> [text |-> "0%", hundredths |-> 0], mem |-> [bytes |-> 0]]

StatsOf(res) ==
    IF res.success /\ IsSome(res.data)
       THEN [cpu |-> [text |-> "toFixed(2)%", hundredths |-> ToFixed2(cpuPercent(res.data[1]))],
             mem |-> [bytes |-> memUsage(res.data[1])]]
       ELSE FailedStats

\* result.data.forEach(...): statsMap after the first n entries.
RECURSIVE statsMapStopAtFailure(_, _)
statsMapStopAtFailure(data, n) ==
    IF n = 0 THEN <<>>
    ELSE LET prev == statsMapStopAtFailure(data, n - 1)
             res == data[n]
         IN IF \E i \in 1..n : ~data[i].success
               THEN prev
               ELSE [x \in DOMAIN prev \cup {res.id} |-> IF x = res.id THEN StatsOf(res) ELSE prev[x]]

RECURSIVE statsMap(_, _)
statsMap(data, n) ==
    IF n = 0 THEN <<>>
    ELSE LET prev == statsMap(data, n - 1)
             res == data[n]
         IN [x \in DOMAIN prev \cup {res.id} |-> IF x = res.id THEN StatsOf(res) ELSE prev[x]]

\* fetchAllStats, from the point where `await api.getBatchStats(containerIds)`
\* has resolved with batchResult.
fetchAllStats ==
    /\ ~statsFetched
    /\ statsFetched' = TRUE
    /\ allStats' = IF ~batchResult.success \/ ~IsSome(batchResult.data)
                      THEN allStats
                      ELSE statsMap(batchResult.data[1], Len(batchResult.data[1]))
    /\ UNCHANGED <<batchResult, streamVars, hooksButStats>>

\* Specification of one fetch: any result envelope of up to MaxEntries
\* entries over StatIds, ids repeated or not.
InitStats ==
    /\ InitStreams /\ InitHooksBut({"stats"})
    /\ batchResult \in BatchResults(BatchSamples, MaxEntries)
    /\ allStats = <<>>
    /\ statsFetched = FALSE

NextStats == fetchAllStats

SpecStats == InitStats /\ [][NextStats]_vars

\* Specification of the figures of one container: a result with one
\* successful entry, over every sample of Samples.
InitCpu ==
    /\ InitStreams /\ InitHooksBut({"stats"})
    /\ batchResult \in {[success |-> TRUE,
                         data |-> Some(<<[id |-> "c1", success |-> TRUE, data |-> Some(s)]>>)] :
                            s \in Samples}
    /\ allStats = <<>>
    /\ statsFetched = FALSE

NextCpu == fetchAllStats

SpecCpu == InitCpu /\ [][NextCpu]_vars

\* The last entry of the result for id x, and the ids of the result.
LastEntry(data, x) ==
    data[CHOOSE i \in 1..Len(data) :
            data[i].id = x /\ \A j \in (i + 1)..Len(data) : data[j].id # x]
ResultIds(data) == {data[i].id : i \in 1..Len(data)}

\* C12: after a successful getBatchStats response has been processed,
\* allStats has exactly one entry per id of the response; the entry of an id
\* is decided by the response's entry for that id alone: the computed
\* figures when it succeeded, whatever the entries of the other ids.
C12_OneEntryPerId ==
    (statsFetched /\ batchResult.success /\ IsSome(batchResult.data)) =>
        LET data == batchResult.data[1] IN
        /\ DOMAIN allStats = ResultIds(data)
        /\ \A x \in ResultIds(data) :
              LET res == LastEntry(data, x) IN
              /\ (res.success /\ IsSome(res.data))
                    => /\ allStats[x].cpu.text = "toFixed(2)%"
                       /\ allStats[x].cpu.hundredths = ToFixed2(cpuPercent(res.data[1]))
                       /\ allStats[x].mem.bytes = memUsage(res.data[1])
              /\ ~res.success => allStats[x] = FailedStats

\* C12 witness: a processed response of three ids in which the entry of one
\* id failed and the two others carry computed figures.
C12_Witness ==
    /\ statsFetched /\ batchResult.success /\ IsSome(batchResult.data)
    /\ DOMAIN allStats = StatIds
    /\ allStats["c1"] = FailedStats
    /\ allStats["c2"].cpu.hundredths = 20000
    /\ allStats["c3"].cpu.text = "toFixed(2)%"

\* The sample of the one entry of the result of SpecCpu, and the CPU figure
\* stored for it, in hundredths of a percent.
TheSample == batchResult.data[1][1].data[1]
TheCpuHundredths == allStats["c1"].cpu.hundredths

\* h is the number of hundredths nearest to 100 * cd * n / sd (sd > 0).
NearestHundredths(h, cd, n, sd) ==
    LET d == h * sd - cd * n * 10000 IN 2 * d <= sd /\ -2 * d < sd

\* C13: the CPU percentage is cpu delta / system delta * cpus * 100 when
\* both deltas are positive (delta 100 over 200 on 4 cpus is 200), and 0 when
\* either delta is zero or negative; it is never a division by zero.
C13_CpuPercentFormula ==
    statsFetched =>
        LET s == TheSample
            cd == s.cpu_total - s.precpu_total
            sd == s.system_cpu_usage - s.presystem_cpu_usage
        IN /\ cpuPercent(s).den # 0
           /\ (cd > 0 /\ sd > 0 /\ TruthyNumber(s.online_cpus))
                 => NearestHundredths(TheCpuHundredths, cd, s.online_cpus[1], sd)
           /\ (cd = 100 /\ sd = 200 /\ s.online_cpus = Some(4)) => TheCpuHundredths = 20000
           /\ (cd <= 0 \/ sd <= 0) => TheCpuHundredths = 0

\* C13 witness: the figure of a sample with cpu delta 100, system delta 200
\* and 4 online cpus has been computed: 200.00.
C13_Witness ==
    /\ statsFetched
    /\ TheSample.cpu_total - TheSample.precpu_total = 100
    /\ TheSample.system_cpu_usage - TheSample.presystem_cpu_usage = 200
    /\ TheSample.online_cpus = Some(4)
    /\ TheCpuHundredths = 20000

\* C14: the CPU count the percentage is computed with is online_cpus when
\* it is reported (present and not 0), otherwise the number of per-CPU
\* entries of the previous sample when there are any, otherwise 1; it is at
\* least 1.
C14_CpuCountFallback ==
    statsFetched =>
        LET s == TheSample
            cd == s.cpu_total - s.precpu_total
            sd == s.system_cpu_usage - s.presystem_cpu_usage
            count == CASE TruthyNumber(s.online_cpus) -> s.online_cpus[1]
                       [] ~TruthyNumber(s.online_cpus) /\ IsSome(s.percpu_usage)
                            /\ Len(s.percpu_usage[1]) > 0 -> Len(s.percpu_usage[1])
                       [] OTHER -> 1
        IN /\ count >= 1
           /\ numberCpus(s) = count
           /\ (cd > 0 /\ sd > 0) => NearestHundredths(TheCpuHundredths, cd, count, sd)

\* C14 witness: online_cpus is not reported, the previous sample has two
\* per-CPU entries, and the figure was computed with 2 cpus.
C14_Witness ==
    /\ statsFetched
    /\ TheSample.online_cpus = None /\ TheSample.percpu_usage = Some(<<50, 50>>)
    /\ TheSample.cpu_total - TheSample.precpu_total = 100
    /\ TheSample.system_cpu_usage - TheSample.presystem_cpu_usage = 200
    /\ TheCpuHundredths = 10000

----------------------------------------------------------------------------
\* useContainers (hooks/useContainers.ts); useImages, useVolumes and
\* useNetworks repeat fetchContainers with their own list call.

MaxFetches == 3

\* The envelope a one-shot command resolves with, `{success, data?, error?}`,
\* and the outcome of an invoke that rejects instead (thrown).
ListData == {None, Some(<<>>), Some(<<"item">>), Some(<<"item", "other">>)}
Envelopes == [success : BOOLEAN, data : ListData, error : {None, Some("message")}, thrown : {FALSE}]
Rejection == [success |-> FALSE, data |-> None, error |-> Some("err.message"), thrown |-> TRUE]
\* A rejection whose reason is not an Error object: err.message is undefined.
RejectionNoMessage == [success |-> FALSE, data |-> None, error |-> None, thrown |-> TRUE]

\* result.error || 'Unknown error'
ErrorText(result) == IF IsSome(result.error) THEN result.error ELSE Some("Unknown error")

\* The argument of setError: err.message in the catch branch.
ErrorSet(result) == IF result.thrown THEN result.error ELSE ErrorText(result)

\* The branch of fetchContainers that calls setError.
TakesErrorPath(result) == result.thrown \/ ~(result.success /\ IsSome(result.data))

\* fetchContainers, from the point where `await api.listContainers()` has
\* resolved with result or rejected.
fetchContainersClearsError(result) ==
    /\ fetchCount < MaxFetches
    /\ fetchCount' = fetchCount + 1
    /\ lastResult' = result
    /\ IF TakesErrorPath(result)
          THEN /\ error' = ErrorSet(result)
               /\ containers' = containers
          ELSE /\ containers' = result.data[1]
               /\ error' = None
    /\ loading' = FALSE
    /\ UNCHANGED <<consoleErrors, streamVars, hooksButOneShot>>

fetchContainers(result) ==
    /\ fetchCount < MaxFetches
    /\ fetchCount' = fetchCount + 1
    /\ lastResult' = result
    /\ IF TakesErrorPath(result)
          THEN /\ error' = ErrorSet(result)
               /\ containers' = containers
          ELSE /\ containers' = result.data[1]
               /\ error' = error
    /\ loading' = FALSE
    /\ UNCHANGED <<consoleErrors, streamVars, hooksButOneShot>>

\* performAction, from the point where `await api.containerAction(id, action)`
\* has resolved: console.error when it failed. The fetchContainers() it then
\* calls resolves as a fetchContainers step.
performAction(result) ==
    /\ fetchCount < MaxFetches
    /\ fetchCount' = fetchCount + 1
    /\ lastResult' = result
    /\ consoleErrors' = IF ~result.success THEN consoleErrors + 1 ELSE consoleErrors
    /\ UNCHANGED <<containers, error, loading, streamVars, hooksButOneShot>>

NextOneShot ==
    \/ \E result \in Envelopes : fetchContainers(result)
    \/ fetchContainers(Rejection)
    \/ fetchContainers(RejectionNoMessage)
    \/ \E result \in {r \in Envelopes : r.data = None} : performAction(result)

SpecOneShot == Init /\ [][NextOneShot]_vars

\* C15: a one-shot call takes its error path exactly when the envelope it
\* resolved with has success=false: a response with success=true sets no
\* error, and a response with success=false sets one and leaves the
\* displayed data as it was.
C15_ErrorPathIffFailure ==
    [][(fetchCount' = fetchCount + 1 /\ ~lastResult'.thrown) =>
          /\ lastResult'.success => (error' = error /\ consoleErrors' = consoleErrors)
          /\ ~lastResult'.success =>
                /\ containers' = containers
                /\ IsSome(error') \/ consoleErrors' = consoleErrors + 1]_vars

----------------------------------------------------------------------------
\* App.checkAndStartDocker

MaxRuns == 2

\* The envelopes the docker lifecycle commands resolve with: a boolean
\* answer for the two checks, success or an optional error text for
\* startDocker and waitForDocker.
CheckResults == [success : BOOLEAN, data : {None, Some(FALSE), Some(TRUE)}]
StartResults == [success : BOOLEAN, error : {None, Some("backend message")}]

\* Why a waitForDocker without success failed: the timeout the caller
\* supplied elapsed, or another reason.
WaitCauses == {"timeout", "other"}

\* startResult.error || 'Failed to start Docker'
StartErrorMessage(r) == IF IsSome(r.error) THEN r.error ELSE Some("Failed to start Docker")

\* waitResult.error || 'Docker did not start in time'
WaitErrorMessage(r) == IF IsSome(r.error) THEN r.error ELSE Some("Docker did not start in time")

Failure(cause) == [cause |-> cause, state |-> dockerState', message |-> errorMessage']

\* checkAndStartDocker is called (by the effect, or by Retry of
\* DockerStatus): up to its first await.
checkAndStartDocker ==
    /\ appPc = "idle" /\ dockerState # "ready" /\ runs < MaxRuns
    /\ runs' = runs + 1
    /\ dockerState' = "checking"
    /\ errorMessage' = None
    /\ runLog' = <<>>
    /\ appPc' = "checkDockerRunning"
    /\ UNCHANGED <<failures, streamVars, hooksButApp>>

checkDockerRunning_resolved(r) ==
    /\ appPc = "checkDockerRunning"
    /\ runLog' = Append(runLog, <<"checkDockerRunning", r.success /\ r.data = Some(TRUE)>>)
    /\ IF r.success /\ r.data = Some(TRUE)
          THEN dockerState' = "ready" /\ appPc' = "idle"
          ELSE dockerState' = dockerState /\ appPc' = "checkColimaInstalled"
    /\ UNCHANGED <<errorMessage, runs, failures, streamVars, hooksButApp>>

checkColimaInstalled_resolved(r) ==
    /\ appPc = "checkColimaInstalled"
    /\ runLog' = Append(runLog, <<"checkColimaInstalled", r.success /\ r.data = Some(TRUE)>>)
    /\ IF ~r.success \/ r.data # Some(TRUE)
          THEN dockerState' = "not-installed" /\ appPc' = "idle"
          ELSE dockerState' = "starting" /\ appPc' = "startDocker"
    /\ UNCHANGED <<errorMessage, runs, failures, streamVars, hooksButApp>>

startDocker_resolved(r) ==
    /\ appPc = "startDocker"
    /\ runLog' = Append(runLog, <<"startDocker", r.success>>)
    /\ IF ~r.success
          THEN /\ dockerState' = "error"
               /\ errorMessage' = StartErrorMessage(r)
               /\ failures' = failures \cup {Failure("startDocker")}
               /\ appPc' = "idle"
          ELSE /\ UNCHANGED <<dockerState, errorMessage, failures>>
               /\ appPc' = "waitForDocker"
    /\ UNCHANGED <<runs, streamVars, hooksButApp>>

waitForDocker_resolved(r, cause) ==
    /\ appPc = "waitForDocker"
    /\ runLog' = Append(runLog, <<"waitForDocker", r.success>>)
    /\ IF ~r.success
          THEN /\ dockerState' = "error"
               /\ errorMessage' = WaitErrorMessage(r)
               /\ failures' = failures \cup {Failure(cause)}
          ELSE /\ dockerState' = "ready"
               /\ UNCHANGED <<errorMessage, failures>>
    /\ appPc' = "idle"
    /\ UNCHANGED <<runs, streamVars, hooksButApp>>

\* An invoke of the run rejects: the catch block.
checkAndStartDocker_catch ==
    /\ appPc # "idle"
    /\ runLog' = Append(runLog, <<appPc, FALSE>>)
    /\ dockerState' = "error"
    /\ errorMessage' = Some("error.toString()")
    /\ failures' = failures \cup {Failure("exception")}
    /\ appPc' = "idle"
    /\ UNCHANGED <<runs, streamVars, hooksButApp>>

NextApp ==
    \/ checkAndStartDocker
    \/ \E r \in CheckResults : checkDockerRunning_resolved(r)
    \/ \E r \in CheckResults : checkColimaInstalled_resolved(r)
    \/ \E r \in StartResults : startDocker_resolved(r)
    \/ \E r \in StartResults, cause \in WaitCauses : waitForDocker_resolved(r, cause)
    \/ checkAndStartDocker_catch

SpecApp == Init /\ [][NextApp]_vars

\* C18: what the application shows for a waitForDocker that failed because
\* the timeout elapsed differs from what it shows for every other startup
\* failure.
C18_TimedOutIsDistinct ==
    \A x, y \in failures :
        (x.cause = "timeout" /\ y.cause # "timeout")
            => <<x.state, x.message>> # <<y.state, y.message>>

----------------------------------------------------------------------------
\* useSortable (hooks/useSortable.ts)

MaxItems == 3

\* The values an item holds under a key: a string, a number, or nothing.
Str(x) == [t |-> "string", s |-> x, n |-> 0]
Num(x) == [t |-> "number", s |-> "", n |-> x]
Undefined == [t |-> "undefined", s |-> "", n |-> 0]

SortableItems == [name : {Undefined, Str("a"), Str("B")}, value : {Undefined, Num(-1), Num(2)}]
SortKeys == {"name", "value"}
Directions == {"ascending", "descending"}
SortConfigs == [key : {None} \cup {Some(k) : k \in SortKeys}, direction : Directions]

\* String.prototype.toLowerCase and the order of the lower-case strings.
toLowerCase(x) == IF x = "B" THEN "b" ELSE x
StringOrd(x) == CASE x = "" -> 0 [] x = "a" -> 1 [] x = "b" -> 2 [] OTHER -> 3

\* `if (aValue === undefined || aValue === null) aValue = ''`
Defaulted(v) == IF v.t = "undefined" THEN Str("") ELSE v

\* The comparator: its sign, or threw when it raises a TypeError
\* (`bValue.toLowerCase` of a number).
Sign(lt, gt, direction) ==
    IF lt THEN (IF direction = "ascending" THEN -1 ELSE 1)
    ELSE IF gt THEN (IF direction = "ascending" THEN 1 ELSE -1)
    ELSE 0

compare(a, b, cfg) ==
    LET aValue == Defaulted(a[cfg.key[1]])
        bValue == Defaulted(b[cfg.key[1]])
    IN IF aValue.t = "string"
          THEN IF bValue.t # "string"
                  THEN [threw |-> TRUE, sign |-> 0]
                  ELSE [threw |-> FALSE,
                        sign |-> Sign(StringOrd(toLowerCase(aValue.s)) < StringOrd(toLowerCase(bValue.s)),
                                      StringOrd(toLowerCase(aValue.s)) > StringOrd(toLowerCase(bValue.s)),
                                      cfg.direction)]
          ELSE LET bNumber == IF bValue.t = "number" THEN bValue.n ELSE 0
               IN [threw |-> FALSE,
                   sign |-> Sign(aValue.n < bNumber, aValue.n > bNumber, cfg.direction)]

\* Array.prototype.sort: a stable sort. The argument order of each
\* comparator call is the engine's choice: the element that is earlier in
\* the array first, or second.
Threw == [threw |-> TRUE, items |-> <<>>]

KeepsOrder(e, x, cfg, order) ==
    IF order = "earlier first"
       THEN [threw |-> compare(e, x, cfg).threw, keep |-> compare(e, x, cfg).sign <= 0]
       ELSE [threw |-> compare(x, e, cfg).threw, keep |-> compare(x, e, cfg).sign >= 0]

RECURSIVE InsertSorted(_, _, _, _, _)
InsertSorted(sorted, x, j, cfg, order) ==
    IF j = 0 THEN [threw |-> FALSE, items |-> <<x>> \o sorted]
    ELSE LET r == KeepsOrder(sorted[j], x, cfg, order)
         IN IF r.threw THEN Threw
            ELSE IF r.keep
                    THEN [threw |-> FALSE,
                          items |-> SubSeq(sorted, 1, j) \o <<x>> \o SubSeq(sorted, j + 1, Len(sorted))]
                    ELSE InsertSorted(sorted, x, j - 1, cfg, order)

RECURSIVE SortFirst(_, _, _, _)
SortFirst(items, n, cfg, order) ==
    IF n = 0 THEN [threw |-> FALSE, items |-> <<>>]
    ELSE LET prev == SortFirst(items, n - 1, cfg, order)
         IN IF prev.threw THEN Threw
            ELSE InsertSorted(prev.items, items[n], Len(prev.items), cfg, order)

\* sortedItems: a copy of items, sorted when sortConfig.key is set.
SortedItems(items, cfg, order) ==
    IF IsSome(cfg.key) THEN SortFirst(items, Len(items), cfg, order)
                       ELSE [threw |-> FALSE, items |-> items]

\* requestSort(key), and the render that follows it.
requestSortToggle(key) ==
    /\ ~sortedItems.threw
    /\ requestedKey' = Some(key)
    /\ sortConfig' = [key |-> Some(key),
                      direction |-> IF sortConfig.direction = "ascending"
                                       THEN "descending" ELSE "ascending"]
    /\ sortedItems' = SortedItems(sortInput, sortConfig', cmpOrder)
    /\ UNCHANGED <<sortInput, cmpOrder, streamVars, hooksButSort>>

requestSort(key) ==
    /\ ~sortedItems.threw
    /\ requestedKey' = Some(key)
    /\ sortConfig' = [key |-> Some(key),
                      direction |-> IF sortConfig.key = Some(key) /\ sortConfig.direction = "ascending"
                                       THEN "descending" ELSE "ascending"]
    /\ sortedItems' = SortedItems(sortInput, sortConfig', cmpOrder)
    /\ UNCHANGED <<sortInput, cmpOrder, streamVars, hooksButSort>>

\* Specification of one useSortable: any list of up to MaxItems items and
\* any initial config; the state after the first render.
InitSort ==
    /\ InitStreams /\ InitHooksBut({"sort"})
    /\ sortInput \in SeqsUpTo(SortableItems, MaxItems)
    /\ sortConfig \in SortConfigs
    /\ cmpOrder \in {"earlier first", "earlier second"}
    /\ sortedItems = SortedItems(sortInput, sortConfig, cmpOrder)
    /\ requestedKey = None

NextSort == \E key \in SortKeys : requestSort(key)

SpecSort == InitSort /\ [][NextSort]_vars

\* The number of times x occurs in s; the value of an item under the
\* current key as the comparison orders it.
Count(s, x) == Cardinality({i \in 1..Len(s) : s[i] = x})
KeyRank(item) ==
    LET v == Defaulted(item[sortConfig.key[1]])
    IN IF v.t = "string" THEN StringOrd(toLowerCase(v.s)) ELSE v.n

\* C19: the items useSortable returns are a permutation of its input, in
\* input order when the key is null and otherwise ordered by the value under
\* the key: non-decreasing when ascending, non-increasing when descending.
C19_SortedPermutation ==
    /\ ~sortedItems.threw
    /\ Len(sortedItems.items) = Len(sortInput)
    /\ \A x \in SortableItems : Count(sortedItems.items, x) = Count(sortInput, x)
    /\ ~IsSome(sortConfig.key) => sortedItems.items = sortInput
    /\ IsSome(sortConfig.key) =>
          \A i \in 1..(Len(sortedItems.items) - 1) :
              IF sortConfig.direction = "ascending"
                 THEN KeyRank(sortedItems.items[i]) <= KeyRank(sortedItems.items[i + 1])
                 ELSE KeyRank(sortedItems.items[i]) >= KeyRank(sortedItems.items[i + 1])

\* C20: requestSort(key) sets the key to key, and the direction to
\* descending exactly when the key was already key and the direction
\* ascending, otherwise to ascending.
C20_RequestSortDirection ==
    [][requestedKey' # requestedKey \/ sortConfig' # sortConfig =>
          /\ sortConfig'.key = requestedKey'
          /\ sortConfig'.direction =
                IF sortConfig.key = requestedKey' /\ sortConfig.direction = "ascending"
                   THEN "descending" ELSE "ascending"]_vars

\* C20 witness: requestSort of the key that was already sorted ascending has
\* turned the direction to descending, and reordered a list of three items.
C20_Witness ==
    /\ requestedKey = Some("name")
    /\ sortConfig = [key |-> Some("name"), direction |-> "descending"]
    /\ Len(sortInput) = 3
    /\ sortedItems.items # sortInput

----------------------------------------------------------------------------
\* Terminal theme (lib/terminalTheme.ts)

MaxThemeCalls == 3

Themes == {"light", "dark", "system"}

\* window.matchMedia('(prefers-color-scheme: dark)').matches
matchMedia == prefersDark

isDarkThemeIgnoresSystem(t) == t = "dark"

isDarkTheme(t) == t = "dark" \/ (t = "system" /\ matchMedia)

getTerminalTheme(t) ==
    LET isDark == isDarkTheme(t)
    IN [background |-> IF isDark THEN "#0f0f10" ELSE "#ffffff",
        foreground |-> IF isDark THEN "#f4f4f5" ELSE "#18181b",
        cursor |-> IF isDark THEN "#f4f4f5" ELSE "#18181b",
        selectionBackground |-> IF isDark THEN "#3f3f46" ELSE "#e4e4e7",
        black |-> IF isDark THEN "#000000" ELSE "#000000",
        red |-> "#ef4444",
        green |-> "#22c55e",
        yellow |-> "#f59e0b",
        blue |-> "#3b82f6",
        magenta |-> "#a855f7",
        cyan |-> "#06b6d4",
        white |-> IF isDark THEN "#ffffff" ELSE "#e5e7eb"]

\* The theme setting changes and ExecView's theme effect computes the
\* terminal theme of the new setting.
setTheme(t) ==
    /\ Len(themeLog) < MaxThemeCalls
    /\ theme' = t
    /\ themeLog' = Append(themeLog, [theme |-> t, prefersDark |-> prefersDark,
                                     isDark |-> isDarkTheme(t),
                                     result |-> getTerminalTheme(t)])
    /\ UNCHANGED <<prefersDark, streamVars, hooksButTheme>>

\* The OS colour scheme changes.
prefersColorSchemeChange ==
    /\ prefersDark' = ~prefersDark
    /\ UNCHANGED <<theme, themeLog, streamVars, hooksButTheme>>

InitTheme ==
    /\ InitStreams /\ InitHooksBut({"theme"})
    /\ theme \in Themes
    /\ prefersDark \in BOOLEAN
    /\ themeLog = <<>>

NextTheme ==
    \/ \E t \in Themes : setTheme(t)
    \/ prefersColorSchemeChange

SpecTheme == InitTheme /\ [][NextTheme]_vars

\* C21: isDarkTheme is true exactly for 'dark', and for 'system' when the OS
\* prefers dark; getTerminalTheme returns the dark background and foreground
\* exactly when isDarkTheme holds, the light ones otherwise, and the same
\* red, green, yellow, blue, magenta and cyan for every theme.
C21_TerminalThemeFollowsDarkness ==
    \A i \in 1..Len(themeLog) :
        LET c == themeLog[i]
        IN /\ c.isDark <=> (c.theme = "dark" \/ (c.theme = "system" /\ c.prefersDark))
           /\ IF c.isDark
                 THEN c.result.background = "#0f0f10" /\ c.result.foreground = "#f4f4f5"
                 ELSE c.result.background = "#ffffff" /\ c.result.foreground = "#18181b"
           /\ \A j \in 1..Len(themeLog) :
                 \A colour \in {"red", "green", "yellow", "blue", "magenta", "cyan"} :
                     c.result[colour] = themeLog[j].result[colour]

\* C21 witness: the theme was computed for 'system' under a dark OS
\* preference, for 'system' under a light one, and for 'dark'.
C21_Witness ==
    /\ \E i \in 1..Len(themeLog) :
          themeLog[i].theme = "system" /\ themeLog[i].prefersDark /\ themeLog[i].isDark
    /\ \E i \in 1..Len(themeLog) :
          themeLog[i].theme = "system" /\ ~themeLog[i].prefersDark /\ ~themeLog[i].isDark
    /\ \E i \in 1..Len(themeLog) : themeLog[i].theme = "dark" /\ themeLog[i].isDark

----------------------------------------------------------------------------
\* LogsView and ExecView of one ContainerDrawer, one of the two in use

NextViews ==
    \/ ~execMounted /\ LogsViewMount
    \/ ToggleTimestamps
    \/ LogsViewUnmount
    \/ \E h \in Handles : LogsViewEffect(h)
    \/ \E h \in Handles : setupLogs_listen(h)
    \/ \E h \in Handles : setupLogs_started(h)
    \/ \E h \in Handles : logsEvent(h)
    \/ \E h \in Handles : flushBuffer(h)
    \/ ~logsMounted /\ stopLogsRef = NoHandle /\ ExecViewMount
    \/ SelectTab
    \/ ContainerListRefresh
    \/ ExecViewEffect
    \/ ExecViewUnmount
    \/ ContainerStateChange
    \/ \E h \in Handles : setupExec_listen(h)
    \/ \E h \in Handles : setupExec_started(h)
    \/ \E h \in Handles : execViewEvent(h)
    \/ \E c \in cmds : backend_start(c)
    \/ \E c \in cmds : c.kind = "logs" /\ backend_attach_fail(c)
    \/ \E c \in cmds : backend_stop(c)
    \/ \E e \in registry : backend_emit(e)
    \/ \E e \in registry : e.kind = "logs" /\ backend_end(e, "ok")

SpecViews == Init /\ [][NextViews]_vars

\* The sessions of a component that it has created and not stopped.
OpenSessions(k) == {h \in Handles : kind[h] = k /\ stopCalls[h] = 0}

\* C22: LogsView and ExecView tear the session they started down before a
\* replacement is started: when a start command is issued every other
\* session of the component has had its stop function called, a component
\* never has two sessions it has not stopped, and an unmounted component has
\* none.
C22_TeardownBeforeReplacement ==
    /\ [](\A k \in {"logs", "exec"} : Cardinality(OpenSessions(k)) <= 1)
    /\ [](~logsMounted => OpenSessions("logs") = {})
    /\ [](~execMounted => OpenSessions("exec") = {})
    /\ [][\A h \in startIssued' \ startIssued :
             \A g \in Handles \ {h} : kind[g] = kind[h] => stopCalls[g] >= 1]_vars

\* C22 witness: the effect of LogsView has re-run: the first session was
\* started and stopped, and its replacement has been started.
C22_Witness ==
    \E h, g \in Handles :
        /\ h # g /\ kind[h] = "logs" /\ kind[g] = "logs"
        /\ h \in startIssued /\ stopCalls[h] >= 1
        /\ \E c \in cmds : c.op = "stop" /\ c.h = h
        /\ g \in startIssued /\ stopCalls[g] = 0

----------------------------------------------------------------------------
\* ImageList (components/ImageList.tsx) over api.pullImage

\* `prev.slice(-4)`
LastFour(s) == IF Len(s) <= 4 THEN s ELSE SubSeq(s, Len(s) - 3, Len(s))

ProgressLine(payload) == [status |-> "progress", n |-> payload.n]
ErrorLine == [status |-> "Error", n |-> 0]

\* App renders ImageList when the Images tab is selected: a new instance.
ImageListMount ==
    /\ imgPhase = "never"
    /\ imgPhase' = "mounted"
    /\ pulling' = FALSE /\ showPullModal' = FALSE /\ cancelPullRef' = NoHandle
    /\ pullLogs' = <<>>
    /\ UNCHANGED <<lateCallbacks, streamVars, hooksButImage>>

\* Another tab is selected: App stops rendering ImageList.  The component
\* has no effect cleanup.
ImageListUnmount ==
    /\ JsIdle /\ imgPhase = "mounted"
    /\ imgPhase' = "unmounted"
    /\ UNCHANGED <<pulling, showPullModal, cancelPullRef, pullLogs, lateCallbacks,
                   streamVars, hooksButImage>>

\* The "Pull Image" button: setShowPullModal(true).
OpenPullModal ==
    /\ JsIdle /\ imgPhase = "mounted" /\ ~showPullModal
    /\ showPullModal' = TRUE
    /\ UNCHANGED <<imgPhase, pulling, cancelPullRef, pullLogs, lateCallbacks,
                   streamVars, hooksButImage>>

\* Click on the backdrop: `!pulling && setShowPullModal(false)`.
BackdropClick ==
    /\ JsIdle /\ imgPhase = "mounted" /\ showPullModal
    /\ ~pulling
    /\ showPullModal' = FALSE
    /\ UNCHANGED <<imgPhase, pulling, cancelPullRef, pullLogs, lateCallbacks,
                   streamVars, hooksButImage>>

\* handlePull: the form is submitted (its button and input are disabled
\* while pulling) with a name typed in.
handlePull(h) ==
    /\ JsIdle /\ imgPhase = "mounted" /\ showPullModal /\ ~pulling
    /\ FreeHandles # {} /\ h = NewHandle
    /\ pulling' = TRUE
    /\ pullLogs' = <<>>
    /\ pullImage(h)
    /\ cancelPullRef' = h
    /\ UNCHANGED <<imgPhase, showPullModal, lateCallbacks, busVars, backendVars, obsVars,
                   logsViewVars, execViewVars, hooksButImage>>

\* The Cancel button of the modal.
CancelButton ==
    /\ JsIdle /\ imgPhase = "mounted" /\ showPullModal
    /\ IF cancelPullRef # NoHandle
          THEN /\ cancel_api(cancelPullRef)
               /\ cancelPullRef' = NoHandle
          ELSE UNCHANGED <<active, listeners, crashed, cmds, stopCalls, cancelPullRef>>
    /\ pulling' = FALSE
    /\ showPullModal' = FALSE
    /\ UNCHANGED <<imgPhase, pullLogs, lateCallbacks, kind, sid, unlisten, pc, args, evq,
                   resp, backendVars, stopResults, startIssued, delivered, callObs,
                   logsViewVars, execViewVars, hooksButImage>>

\* An event of `pull-${sessionId}` reaches the listener callback of handle
\* h; onProgress is `setPullLogs(prev => [...prev.slice(-4), progress])`.
imagePullEvent(h) ==
    /\ JsIdle
    /\ kind[h] = "pull" /\ evq[h] # <<>>
    /\ evq' = [evq EXCEPT ![h] = Tail(@)]
    /\ delivered' = [delivered EXCEPT ![h] = ListenerCallback(h, Head(evq[h]))]
    /\ IF delivered'[h] # delivered[h]
          THEN IF imgPhase = "mounted"
                  THEN /\ pullLogs' = Append(LastFour(pullLogs), ProgressLine(Head(evq[h])))
                       /\ lateCallbacks' = lateCallbacks
                  ELSE /\ pullLogs' = pullLogs
                       /\ lateCallbacks' = lateCallbacks + 1
          ELSE UNCHANGED <<pullLogs, lateCallbacks>>
    /\ UNCHANGED <<imgPhase, pulling, showPullModal, cancelPullRef, apiVars, listeners, cmds,
                   resp, backendVars, stopCalls, stopResults, startIssued, crashed, callObs,
                   logsViewVars, execViewVars, hooksButImage>>

\* setup(), second await, with the onEnd and onError ImageList passes:
\* onEnd: setPulling(false), setShowPullModal(false), cancelPullRef.current =
\* null, refresh(); onError: an "Error:" line, setPulling(false),
\* cancelPullRef.current = null.
imagePullSettled(h) ==
    /\ JsIdle
    /\ kind[h] = "pull" /\ pc[h] = "start" /\ resp[h] # "none"
    /\ onEndCount' = [onEndCount EXCEPT ![h] = PullOutcome(h)[1]]
    /\ onErrorCount' = [onErrorCount EXCEPT ![h] = PullOutcome(h)[2]]
    /\ listeners' = listeners \ {h}
    /\ pc' = [pc EXCEPT ![h] = "done"]
    /\ IF imgPhase = "mounted"
          THEN /\ pulling' = FALSE
               /\ cancelPullRef' = NoHandle
               /\ showPullModal' = (IF onEndCount'[h] # onEndCount[h] THEN FALSE ELSE showPullModal)
               /\ pullLogs' = (IF onErrorCount'[h] # onErrorCount[h]
                                 THEN Append(pullLogs, ErrorLine) ELSE pullLogs)
               /\ lateCallbacks' = lateCallbacks
          ELSE /\ lateCallbacks' = lateCallbacks + 1
               /\ UNCHANGED <<pulling, cancelPullRef, showPullModal, pullLogs>>
    /\ UNCHANGED <<imgPhase, kind, sid, active, unlisten, args, evq, cmds, resp, backendVars,
                   stopCalls, stopResults, startIssued, delivered, crashed, writes,
                   resizeCalls, logsViewVars, execViewVars, hooksButImage>>

NextImageList ==
    \/ ImageListMount
    \/ ImageListUnmount
    \/ OpenPullModal
    \/ BackdropClick
    \/ \E h \in Handles : handlePull(h)
    \/ CancelButton
    \/ \E h \in Handles : setupPull_listen(h)
    \/ \E h \in Handles : imagePullEvent(h)
    \/ \E h \in Handles : imagePullSettled(h)
    \/ \E c \in cmds : backend_start(c)
    \/ \E c \in cmds : backend_stop(c)
    \/ \E e \in registry : backend_emit(e)
    \/ \E e \in registry, outcome \in {"ok", "err"} : backend_end(e, outcome)

SpecImageList == Init /\ [][NextImageList]_vars

\* A pull of ImageList that is in flight: pull_image issued and not settled.
PullInFlight(h) == kind[h] = "pull" /\ h \in startIssued /\ pc[h] = "start"

\* C23: when ImageList is unmounted while a pull it started is in flight, a
\* stop_pull for that pull is issued, and no callback of the pull is invoked
\* afterwards.
C23_UnmountTearsDownPull ==
    /\ imgPhase = "unmounted" =>
          \A h \in Handles : PullInFlight(h) => stopCalls[h] >= 1
    /\ lateCallbacks = 0

\* C27: while ImageList is mounted and a pull is in flight and not
\* cancelled, cancelPullRef holds that pull's cancel function and pulling is
\* true.
C27_CancelRefHoldsPullInFlight ==
    imgPhase = "mounted" =>
        \A h \in Handles :
            (PullInFlight(h) /\ stopCalls[h] = 0) => (cancelPullRef = h /\ pulling)

----------------------------------------------------------------------------
\* Specification of a log stream or an exec session with input, stopped at
\* any point: a client of api.startLogs / api.startExec.

NextStopped ==
    \/ \E h \in Handles, ts \in {"", "timestamps"} :
          FreeHandles = Handles /\ callStartLogs(h, ts)
    \/ \E h \in Handles : FreeHandles = Handles /\ callStartExec(h, RandomId, DefaultSize)
    \/ \E h \in Handles : callStop(h)
    \/ \E h \in Handles, d \in Data : callWrite(h, d)
    \/ \E h \in Handles : setupLogs_listen(h)
    \/ \E h \in Handles : setupLogs_started(h)
    \/ \E h \in Handles : setupExec_listen(h)
    \/ \E h \in Handles : setupExec_started(h)
    \/ \E h \in Handles : apiEvent(h)
    \/ \E c \in cmds : backend_start(c)
    \/ \E c \in cmds : backend_stop(c)
    \/ \E c \in cmds : backend_input(c)
    \/ \E e \in registry : backend_emit(e)

SpecStopped == Init /\ [][NextStopped]_vars

\* C25: once the stop function of startLogs or dispose of startExec has been
\* called, onData is not invoked again, whatever events are still delivered,
\* and write issues no exec_input command.
C25_SilentAfterStop ==
    [][\A h \in Handles :
          stopCalls[h] >= 1 =>
              /\ delivered'[h] = delivered[h]
              /\ \A c \in cmds' \ cmds : ~(c.op = "input" /\ c.h = h)]_vars

\* C25 witness: an exec handle has been disposed while an event emitted
\* before the dispose is still to be delivered to its listener callback;
\* write has been called on the handle and no exec_input command is pending.
C25_Witness ==
    \E h \in Handles :
        /\ kind[h] = "exec" /\ stopCalls[h] >= 1 /\ ~active[h]
        /\ evq[h] # <<>> /\ delivered[h] = <<>>
        /\ writes[h] >= 1
        /\ \A c \in cmds : c.op # "input"

----------------------------------------------------------------------------
\* useBatchContainerStats: the effect, its interval and its requests

MaxPolls == 3

\* The id lists ContainerList passes (runningContainerIds).
IdLists == SUBSET {"c1", "c2"}

\* The result get_batch_stats(ids) resolves with: one entry per id.
RECURSIVE ResultFor(_)
ResultFor(ids) ==
    IF ids = {} THEN <<>>
    ELSE LET x == CHOOSE y \in ids : TRUE
         IN <<[id |-> x, success |-> FALSE, data |-> None]>> \o ResultFor(ids \ {x})

\* fetchAllStats up to its await: api.getBatchStats(containerIds) is issued
\* with the id list of the effect run.
IssueRequest(ids) == [ids |-> ids, poll |-> pollCount + 1]

\* containerIds.join(',') changes: the cleanup clears the interval, and the
\* effect runs again: setAllStats({}) for an empty list, otherwise
\* fetchAllStats() and a new interval.
ContainerIdsChange(ids) ==
    /\ ids # containerIds
    /\ containerIds' = ids
    /\ IF ids = {}
          THEN /\ allStats' = <<>>
               /\ UNCHANGED <<statsInFlight, pollCount>>
          ELSE /\ pollCount < MaxPolls
               /\ statsInFlight' = statsInFlight \cup {IssueRequest(ids)}
               /\ pollCount' = pollCount + 1
               /\ allStats' = allStats
    /\ UNCHANGED <<lastApplied, batchResult, statsFetched, streamVars, hooksButStatsAndPoll>>

\* setInterval(fetchAllStats, 2000) fires.
IntervalTick ==
    /\ containerIds # {} /\ pollCount < MaxPolls
    /\ statsInFlight' = statsInFlight \cup {IssueRequest(containerIds)}
    /\ pollCount' = pollCount + 1
    /\ UNCHANGED <<containerIds, lastApplied, allStats, batchResult, statsFetched, streamVars,
                   hooksButStatsAndPoll>>

\* A getBatchStats call resolves and fetchAllStats continues after its
\* await: on success setAllStats(statsMap).
getBatchStats_resolved(r, ok) ==
    /\ r \in statsInFlight
    /\ statsInFlight' = statsInFlight \ {r}
    /\ IF ok
          THEN /\ allStats' = statsMap(ResultFor(r.ids), Cardinality(r.ids))
               /\ lastApplied' = r
          ELSE UNCHANGED <<allStats, lastApplied>>
    /\ UNCHANGED <<containerIds, pollCount, batchResult, statsFetched, streamVars,
                   hooksButStatsAndPoll>>

NextPoll ==
    \/ \E ids \in IdLists : ContainerIdsChange(ids)
    \/ IntervalTick
    \/ \E r \in statsInFlight, ok \in BOOLEAN : getBatchStats_resolved(r, ok)

SpecPoll == Init /\ [][NextPoll]_vars

\* C26: useBatchContainerStats applies no response of an earlier id list and
\* no response of an older poll over that of a newer one, and while
\* containerIds is empty allStats is {}.
C26_NoStaleResponseApplied ==
    /\ [][lastApplied' # lastApplied =>
             /\ lastApplied'.ids = containerIds
             /\ lastApplied'.poll > lastApplied.poll]_vars
    /\ [](containerIds = {} => DOMAIN allStats = {})

----------------------------------------------------------------------------
\* useContainers: the fetches of its effect and interval alone

NextFetch ==
    \/ \E result \in Envelopes : fetchContainers(result)
    \/ fetchContainers(Rejection)
    \/ fetchContainers(RejectionNoMessage)

SpecFetch == Init /\ [][NextFetch]_vars

\* C28: the error state of useContainers is sticky: once a fetch has set it,
\* no later successful fetch resets it, although containers is replaced;
\* loading is true until the first fetch completes and false ever after.
C28_ErrorIsSticky ==
    /\ [][(fetchCount' # fetchCount /\ ~TakesErrorPath(lastResult')) =>
             (error' = error /\ containers' = lastResult'.data[1])]_vars
    /\ [][~loading => ~loading']_vars
    /\ [](loading <=> fetchCount = 0)

\* C28 witness: after a failed fetch a successful one has replaced
\* containers, and error is still set.
C28_Witness ==
    /\ IsSome(error) /\ ~loading
    /\ ~lastResult.thrown /\ lastResult.success /\ lastResult.data = Some(<<"item", "other">>)
    /\ containers = <<"item", "other">> /\ fetchCount = 3

----------------------------------------------------------------------------
\* App: checkAndStartDocker and the 'docker-stopping' listener

\* The listener of 'docker-stopping': setDockerState('stopping').
docker_stopping ==
    /\ ~stoppingReceived
    /\ stoppingReceived' = TRUE
    /\ stoppingAt' = appPc
    /\ dockerState' = "stopping"
    /\ UNCHANGED <<errorMessage, appPc, runs, runLog, failures, streamVars,
                   hooksButAppAndStopping>>

\* `if (dockerState !== 'ready')`: DockerStatus is rendered, else the Layout.
LayoutRendered == dockerState = "ready"

\* Retry is offered by DockerStatus in the states 'not-installed' and
\* 'error' only.
NextAppStopping ==
    \/ dockerState # "stopping" /\ checkAndStartDocker
    \/ \E r \in CheckResults : checkDockerRunning_resolved(r)
    \/ \E r \in CheckResults : checkColimaInstalled_resolved(r)
    \/ \E r \in StartResults : startDocker_resolved(r)
    \/ \E r \in StartResults, cause \in WaitCauses : waitForDocker_resolved(r, cause)
    \/ checkAndStartDocker_catch
    \/ docker_stopping

SpecAppStopping == Init /\ [][NextAppStopping]_vars

\* The steps at which startDocker is issued, the main UI comes up, and a run ends.
StartDockerIssued == appPc # "startDocker" /\ appPc' = "startDocker"
BecomesReady == ~LayoutRendered /\ LayoutRendered'
RunEnds == appPc # "idle" /\ appPc' = "idle"

\* C29: startDocker is issued only after checkDockerRunning reported
\* not-running and checkColimaInstalled reported installed; dockerState
\* becomes 'ready' only after checkDockerRunning reported running or
\* waitForDocker succeeded; a run ends in 'ready', 'not-installed' or
\* 'error'; and once 'docker-stopping' was received during a run, the run
\* neither starts Docker nor brings up the main UI.
C29_StartupOrdering ==
    /\ [][StartDockerIssued =>
             runLog' = << <<"checkDockerRunning", FALSE>>, <<"checkColimaInstalled", TRUE>> >>]_vars
    /\ [][BecomesReady =>
             /\ runLog' # <<>>
             /\ runLog'[Len(runLog')] \in {<<"checkDockerRunning", TRUE>>, <<"waitForDocker", TRUE>>}]_vars
    /\ [][RunEnds => dockerState' \in {"ready", "not-installed", "error"}]_vars
    /\ [][(stoppingReceived /\ stoppingAt # "idle") => (~StartDockerIssued /\ ~BecomesReady)]_vars

====
